---------------------------- MODULE Spec2Model ----------------------------
(***************************************************************************)
(* The notation recovery pipeline of chesslens-analyst                     *)
(* (Frontend/src/lib/parseChessNotation.ts): parsePgnTextInput, parseCSV,  *)
(* parseImage / parseImageWithGemini, validatePgnWithDetails and           *)
(* tryOcrCorrections, over the legal-move oracle of chess.js.              *)
(*                                                                         *)
(* A JavaScript string is a sequence of characters; a character is a       *)
(* one-element TLA+ string.  A literal piece of a message that the code    *)
(* never takes apart (" (move ", "end of game") is kept as one element.    *)
(***************************************************************************)
EXTENDS Integers, Sequences, FiniteSets, TLC

(***************************************************************************)
(* Bounds of the model.                                                    *)
(***************************************************************************)
\* half-moves in an enumerated text input
MaxPlies == 4
\* rows in an enumerated CSV input
MaxRows == 2
\* half-moves in a text returned by a recognition engine
MaxOcrPlies == 2

(***************************************************************************)
(* Characters and strings.                                                 *)
(***************************************************************************)
Digits == <<"0", "1", "2", "3", "4", "5", "6", "7", "8", "9">>
DigitChars == {"0", "1", "2", "3", "4", "5", "6", "7", "8", "9"}
RankChars == {"1", "2", "3", "4", "5", "6", "7", "8"}
FileChars == {"a", "b", "c", "d", "e", "f", "g", "h"}
PieceChars == {"N", "B", "R", "Q", "K"}
LowerChars == {"a", "b", "c", "d", "e", "f", "g", "h", "i", "j", "k", "l", "m",
               "n", "o", "p", "q", "r", "s", "t", "u", "v", "w", "x", "y", "z"}
UpperChars == {"A", "B", "C", "D", "E", "F", "G", "H", "I", "J", "K", "L", "M",
               "N", "O", "P", "Q", "R", "S", "T", "U", "V", "W", "X", "Y", "Z"}
\* \w of a JavaScript regular expression
WordChars == LowerChars \cup UpperChars \cup DigitChars \cup {"_"}
\* \s of a JavaScript regular expression.  Characters that have no TLA+ spelling
\* are named: NBSP is U+00A0, BACKTICK is U+0060, ocyr and Ocyr are U+043E and U+041E
WhiteSpace == {" ", "\n", "\r", "\t", "NBSP"}

\* the value of a property that is not set
Undefined == <<"undefined">>
\* JavaScript truthiness of a string-or-undefined value
Truthy(s) == s # Undefined /\ s # <<>>

DigitVal(c) == CHOOSE d \in 0..9 : Digits[d + 1] = c

RECURSIVE NumStr(_)
\* `${n}` for a non-negative integer
NumStr(n) == IF n < 10 THEN <<Digits[n + 1]>>
             ELSE NumStr(n \div 10) \o <<Digits[(n % 10) + 1]>>

RECURSIVE SpanEnd(_, _, _)
\* the first index >= i of s that is not in set (Len(s)+1 when there is none)
SpanEnd(s, i, set) == IF i <= Len(s) /\ s[i] \in set THEN SpanEnd(s, i + 1, set) ELSE i

RECURSIVE DigitsVal(_, _, _)
DigitsVal(s, i, acc) == IF i <= Len(s) /\ s[i] \in DigitChars
                        THEN DigitsVal(s, i + 1, 10 * acc + DigitVal(s[i]))
                        ELSE acc
\* parseInt(s) of a string that starts with a digit
ParseInt(s) == DigitsVal(s, 1, 0)

Sub(s, a, b) == IF a > b THEN <<>> ELSE SubSeq(s, a, b)

RECURSIVE LastNonSpace(_, _)
LastNonSpace(s, j) == IF j >= 1 /\ s[j] \in WhiteSpace THEN LastNonSpace(s, j - 1) ELSE j
\* String.prototype.trim and trimEnd
Trim(s) == Sub(s, SpanEnd(s, 1, WhiteSpace), LastNonSpace(s, Len(s)))
TrimEnd(s) == Sub(s, 1, LastNonSpace(s, Len(s)))

RECURSIVE SplitFrom(_, _, _)
SplitFrom(s, i, cur) ==
    IF i > Len(s) THEN <<cur>>
    ELSE IF s[i] \in WhiteSpace
         THEN <<cur>> \o SplitFrom(s, SpanEnd(s, i, WhiteSpace), <<>>)
         ELSE SplitFrom(s, i + 1, Append(cur, s[i]))
\* s.split(/\s+/): a leading or trailing run of white space leaves an empty piece
SplitWs(s) == SplitFrom(s, 1, <<>>)

RECURSIVE CollapseFrom(_, _)
CollapseFrom(s, i) ==
    IF i > Len(s) THEN <<>>
    ELSE IF s[i] \in WhiteSpace
         THEN <<" ">> \o CollapseFrom(s, SpanEnd(s, i, WhiteSpace))
         ELSE <<s[i]>> \o CollapseFrom(s, i + 1)
\* s.replace(/\s+/g, " ")
CollapseWs(s) == CollapseFrom(s, 1)

RECURSIVE JoinWith(_, _)
\* parts.join(" ")
JoinWith(parts, sep) ==
    IF Len(parts) = 0 THEN <<>>
    ELSE IF Len(parts) = 1 THEN parts[1]
    ELSE parts[1] \o sep \o JoinWith(Tail(parts), sep)

HasChar(s, set) == \E k \in DOMAIN s : s[k] \in set

\* s starts with lit at index i
StartsAt(s, i, lit) == i + Len(lit) - 1 <= Len(s) /\ Sub(s, i, i + Len(lit) - 1) = lit

RECURSIVE ReplaceLit(_, _, _, _)
\* s.replace(/lit/g, rep) from index i on, for a literal lit
ReplaceLit(s, i, lit, rep) ==
    IF i > Len(s) THEN <<>>
    ELSE IF StartsAt(s, i, lit) THEN rep \o ReplaceLit(s, i + Len(lit), lit, rep)
    ELSE <<s[i]>> \o ReplaceLit(s, i + 1, lit, rep)


(***************************************************************************)
(* Regular expressions.  A pattern is a sequence of elements               *)
(* [set, neg, q]: a character class (negated when neg), taken once         *)
(* ("one"), at most once ("opt") or any number of times ("star"); greedy,  *)
(* with backtracking, as in JavaScript.                                    *)
(***************************************************************************)
One(set) == [set |-> set, neg |-> FALSE, q |-> "one"]
Opt(set) == [set |-> set, neg |-> FALSE, q |-> "opt"]
Star(set) == [set |-> set, neg |-> FALSE, q |-> "star"]
StarNot(set) == [set |-> set, neg |-> TRUE, q |-> "star"]

RECURSIVE Rx(_, _, _, _)
\* the index after the first match (in priority order) of pat[k..] at s[i..]; 0: none
Rx(pat, k, s, i) ==
    IF k > Len(pat) THEN i
    ELSE LET el == pat[k]
             hit == i <= Len(s) /\ ((s[i] \in el.set) # el.neg)
         IN CASE el.q = "one" -> IF hit THEN Rx(pat, k + 1, s, i + 1) ELSE 0
              [] el.q = "opt" ->
                   LET t == IF hit THEN Rx(pat, k + 1, s, i + 1) ELSE 0
                   IN IF t # 0 THEN t ELSE Rx(pat, k + 1, s, i)
              [] el.q = "end" -> IF i > Len(s) THEN i ELSE 0
              [] OTHER ->
                   LET t == IF hit THEN Rx(pat, k, s, i + 1) ELSE 0
                   IN IF t # 0 THEN t ELSE Rx(pat, k + 1, s, i)

IsWordAt(s, i) == i >= 1 /\ i <= Len(s) /\ s[i] \in WordChars
\* \b between s[i-1] and s[i]
WordBoundary(s, i) == IsWordAt(s, i - 1) # IsWordAt(s, i)

RECURSIVE ReplaceRx(_, _, _, _, _)
\* s.replace(/pat/g, rep) from index i on; wb: the pattern stands between two \b
ReplaceRx(pat, wb, rep, s, i) ==
    IF i > Len(s) THEN <<>>
    ELSE LET e == Rx(pat, 1, s, i)
         IN IF e > i /\ (wb => (WordBoundary(s, i) /\ WordBoundary(s, e)))
            THEN rep \o ReplaceRx(pat, wb, rep, s, e)
            ELSE <<s[i]>> \o ReplaceRx(pat, wb, rep, s, i + 1)

\* does /^pat$/ match s
EndOfString == [set |-> {}, neg |-> FALSE, q |-> "end"]
FullMatch(pat, s) == Rx(pat \o <<EndOfString>>, 1, s, 1) # 0

(***************************************************************************)
(* cleanPgnInput, normalizeCastling, stripPgnMetadata.                     *)
(***************************************************************************)
Fence == <<"BACKTICK", "BACKTICK", "BACKTICK">>
FencePgn == <<One({"BACKTICK"}), One({"BACKTICK"}), One({"BACKTICK"}), One({"p", "P"}), One({"g", "G"}),
              One({"n", "N"}), Star(WhiteSpace)>>

\* a cleaning that does not trim
cleanPgnInputUntrimmed(input) == ReplaceLit(input, 1, <<"NBSP">>, <<" ">>)

\* the replacements apply from the innermost outwards, in the order of the source
cleanPgnInput(input) ==
    IF ~Truthy(input) THEN <<>>
    ELSE Trim(ReplaceLit(
                ReplaceLit(
                  ReplaceLit(
                    ReplaceLit(ReplaceRx(FencePgn, FALSE, <<>>, input, 1), 1, Fence, <<>>),
                    1, <<"*", "*">>, <<>>),
                  1, <<"NBSP">>, <<" ">>),
                1, <<"\r">>, <<"\n">>))

Kingside == <<"O", "-", "O">>
Queenside == <<"O", "-", "O", "-", "O">>
\* the digit zero; o and O, Latin and Cyrillic (the i flag); the capital letter O
Zeros == {"0"}
AnyOh == {"o", "O", "ocyr", "Ocyr"}
CapitalOh == {"O"}
\* X\s*-\s*X and X\s*-\s*X\s*-\s*X
TwoPart(x) == <<One(x), Star(WhiteSpace), One({"-"}), Star(WhiteSpace), One(x)>>
ThreePart(x) == TwoPart(x) \o <<Star(WhiteSpace), One({"-"}), Star(WhiteSpace), One(x)>>

\* the replacements with each two-part pattern before its three-part pattern
CastlingPassesTwoFirst(text) ==
    ReplaceRx(<<One(Zeros), One({"-"}), One(Zeros), One({"-"}), One(Zeros)>>, TRUE, Queenside,
     ReplaceRx(<<One(Zeros), One({"-"}), One(Zeros)>>, TRUE, Kingside,
      ReplaceRx(<<One(Zeros), One(Zeros), One(Zeros)>>, TRUE, Queenside,
       ReplaceRx(<<One(Zeros), One(Zeros)>>, TRUE, Kingside,
        ReplaceRx(ThreePart(CapitalOh), TRUE, Queenside,
         ReplaceRx(TwoPart(CapitalOh), TRUE, Kingside,
          ReplaceRx(ThreePart(AnyOh), FALSE, Queenside,
           ReplaceRx(TwoPart(AnyOh), FALSE, Kingside,
            ReplaceRx(ThreePart(Zeros), FALSE, Queenside,
             ReplaceRx(TwoPart(Zeros), FALSE, Kingside, text, 1),
            1), 1), 1), 1), 1), 1), 1), 1), 1)

\* the ten replacements of normalizeCastling, the first one innermost
CastlingPasses(text) ==
    ReplaceRx(<<One(Zeros), One({"-"}), One(Zeros), One({"-"}), One(Zeros)>>, TRUE, Queenside,
     ReplaceRx(<<One(Zeros), One({"-"}), One(Zeros)>>, TRUE, Kingside,
      ReplaceRx(<<One(Zeros), One(Zeros), One(Zeros)>>, TRUE, Queenside,
       ReplaceRx(<<One(Zeros), One(Zeros)>>, TRUE, Kingside,
        ReplaceRx(TwoPart(CapitalOh), TRUE, Kingside,
         ReplaceRx(ThreePart(CapitalOh), TRUE, Queenside,
          ReplaceRx(TwoPart(AnyOh), FALSE, Kingside,
           ReplaceRx(ThreePart(AnyOh), FALSE, Queenside,
            ReplaceRx(TwoPart(Zeros), FALSE, Kingside,
             ReplaceRx(ThreePart(Zeros), FALSE, Queenside, text, 1),
            1), 1), 1), 1), 1), 1), 1), 1), 1)

normalizeCastling(text) ==
    \* every pattern needs a "-" or a "0": a text with neither is left as it is
    IF ~HasChar(text, {"-", "0"}) THEN text ELSE CastlingPasses(text)

RECURSIVE StripParens(_)
\* do { sanitized = sanitized.replace(/\([^()]*\)/g, " ") } while (sanitized !== previous)
StripParensOnce(s) ==
    ReplaceRx(<<One({"("}), StarNot({"(", ")"}), One({")"})>>, FALSE, <<" ">>, s, 1)
StripParens(s) == IF StripParensOnce(s) = s THEN s ELSE StripParens(StripParensOnce(s))

\* the tag pairs, the brace comments and the rest-of-line comments become a space
StripComments(text) ==
    ReplaceRx(<<One({";"}), StarNot({"\n"})>>, FALSE, <<" ">>,
     ReplaceRx(<<One({"{"}), StarNot({"}"}), One({"}"})>>, FALSE, <<" ">>,
      ReplaceRx(<<One({"["}), StarNot({"]"}), One({"]"})>>, FALSE, <<" ">>, text, 1), 1), 1)

stripPgnMetadata(text) ==
    IF ~Truthy(text) THEN <<>> ELSE Trim(CollapseWs(StripParens(StripComments(text))))

(***************************************************************************)
(* The legal-move oracle (chess.js).  The pipeline asks it only about the  *)
(* tokens of the inputs below and the tokens tryOcrCorrections derives from *)
(* them: pawn pushes [a-h][1-8] and the knight moves Nf3, Nf4, Nc6, Nc5,   *)
(* Ne6.  On these the rules of chess reduce to what is written here: pawns *)
(* stay on their files (no capture by a pawn is ever asked for), the       *)
(* knights of g1 and b8 move once (to f3 and to c6, taking a pawn that     *)
(* stands there), no other piece moves, and no king is ever in check.      *)
(* Castling (O-O, O-O-O) is never legal: the bishops never leave f1, c1,   *)
(* f8 and c8.                                                              *)
(*                                                                         *)
(* A position: the side to move, the rank of each pawn of each file (0: it *)
(* was taken) and whether each of the two knights has moved.               *)
(***************************************************************************)
InitialPosition ==
    [turn |-> "w", wp |-> [f \in FileChars |-> 2], bp |-> [f \in FileChars |-> 7],
     wn |-> FALSE, bn |-> FALSE]

Occupied(pos, f, r) ==
    \/ pos.wp[f] = r
    \/ pos.bp[f] = r
    \/ pos.wn /\ f = "f" /\ r = 3
    \/ pos.bn /\ f = "c" /\ r = 6

\* a move: the piece, its destination, and whether it takes
NoMove == [piece |-> "-", file |-> "-", rank |-> 0, capture |-> FALSE]
Push(f, r) == [piece |-> "P", file |-> f, rank |-> r, capture |-> FALSE]

PushLegal(pos, f, r) ==
    IF pos.turn = "w"
    THEN \/ pos.wp[f] = r - 1 /\ ~Occupied(pos, f, r)
         \/ pos.wp[f] = 2 /\ r = 4 /\ ~Occupied(pos, f, 3) /\ ~Occupied(pos, f, 4)
    ELSE \/ pos.bp[f] = r + 1 /\ ~Occupied(pos, f, r)
         \/ pos.bp[f] = 7 /\ r = 5 /\ ~Occupied(pos, f, 6) /\ ~Occupied(pos, f, 5)

KnightMoves(pos) ==
    IF pos.turn = "w"
    THEN IF ~pos.wn /\ pos.wp["f"] # 3
         THEN {[piece |-> "N", file |-> "f", rank |-> 3, capture |-> pos.bp["f"] = 3]}
         ELSE {}
    ELSE IF ~pos.bn /\ pos.bp["c"] # 6
         THEN {[piece |-> "N", file |-> "c", rank |-> 6, capture |-> pos.wp["c"] = 6]}
         ELSE {}

LegalMoves(pos) ==
    {Push(f, r) : <<f, r>> \in {x \in FileChars \X (2..7) : PushLegal(pos, x[1], x[2])}}
        \cup KnightMoves(pos)

\* the move in standard algebraic notation, as chess.js writes it
San(m) ==
    IF m.piece = "P" THEN <<m.file, Digits[m.rank + 1]>>
    ELSE <<"N">> \o (IF m.capture THEN <<"x">> ELSE <<>>) \o <<m.file, Digits[m.rank + 1]>>

ApplyMove(pos, m) ==
    LET other == IF pos.turn = "w" THEN "b" ELSE "w"
    IN IF m.piece = "P"
       THEN IF pos.turn = "w"
            THEN [pos EXCEPT !.turn = other, !.wp[m.file] = m.rank]
            ELSE [pos EXCEPT !.turn = other, !.bp[m.file] = m.rank]
       ELSE IF pos.turn = "w"
            THEN [pos EXCEPT !.turn = other, !.wn = TRUE,
                             !.bp[m.file] = IF m.capture THEN 0 ELSE @]
            ELSE [pos EXCEPT !.turn = other, !.bn = TRUE,
                             !.wp[m.file] = IF m.capture THEN 0 ELSE @]

\* the move a token stands for in a position (the permissive parser of chess.js: a
\* capture may be written without its x), or NoMove
ParseSan(pos, token) ==
    LET n == Len(token)
        dest == IF n >= 2 /\ token[n - 1] \in FileChars /\ token[n] \in RankChars
                THEN <<token[n - 1], DigitVal(token[n])>>
                ELSE <<"-", 0>>
        fits == {m \in LegalMoves(pos) :
                    /\ m.file = dest[1] /\ m.rank = dest[2]
                    /\ \/ n = 2 /\ m.piece = "P"
                       \/ n = 3 /\ m.piece = "N" /\ token[1] = "N"
                       \/ n = 4 /\ m.piece = "N" /\ token[1] = "N" /\ token[2] = "x"
                                /\ m.capture}
    IN IF fits = {} THEN NoMove ELSE CHOOSE m \in fits : TRUE

(***************************************************************************)
(* The oracle on positions with kings and knights alone, which is where    *)
(* two pieces of a kind reach one square and where a move gives check.  A  *)
(* position: the side to move and, for each side, the square of its king   *)
(* (k) and the squares of its knights (n); a square is <<file, rank>>.     *)
(* Without a long-range piece there is no pin and no discovered check.     *)
(***************************************************************************)
Files == <<"a", "b", "c", "d", "e", "f", "g", "h">>
FileIndex(f) == CHOOSE k \in 1..8 : Files[k] = f

\* the squares of the board at the given offsets of a square
Offsets(sq, ds) ==
    {<<Files[x[1]], x[2]>> :
        x \in {<<FileIndex(sq[1]) + d[1], sq[2] + d[2]>> : d \in ds} \cap ((1..8) \X (1..8))}

KnightTargets(sq) ==
    Offsets(sq, {<<1, 2>>, <<2, 1>>, <<2, -1>>, <<1, -2>>,
                 <<-1, -2>>, <<-2, -1>>, <<-2, 1>>, <<-1, 2>>})
KingTargets(sq) ==
    Offsets(sq, {<<1, 0>>, <<1, 1>>, <<0, 1>>, <<-1, 1>>,
                 <<-1, 0>>, <<-1, -1>>, <<0, -1>>, <<1, -1>>})

IsEndgame(pos) == "n" \in DOMAIN pos
Other(side) == IF side = "w" THEN "b" ELSE "w"

\* one of the knights attacks the square
KnightAttacks(knights, sq) == \E b \in knights : sq \in KnightTargets(b)

\* the legal moves of the knights of the side to move: not onto a piece of its own or
\* a king, and its king is not left attacked
EndgameKnightMoves(pos, me, op) ==
    UNION {{[piece |-> "N", from |-> s, to |-> t, capture |-> t \in pos.n[op]] :
               t \in {u \in KnightTargets(s) :
                         /\ u \notin pos.n[me] \cup {pos.k[me], pos.k[op]}
                         /\ ~KnightAttacks(pos.n[op] \ {u}, pos.k[me])}} :
           s \in pos.n[me]}

\* the legal moves of its king: not onto a knight of its own, not next to the other
\* king, not onto a square a knight attacks
EndgameKingMoves(pos, me, op) ==
    {[piece |-> "K", from |-> pos.k[me], to |-> t, capture |-> t \in pos.n[op]] :
        t \in {u \in KingTargets(pos.k[me]) :
                  /\ u \notin pos.n[me]
                  /\ u \notin KingTargets(pos.k[op])
                  /\ ~KnightAttacks(pos.n[op] \ {u}, u)}}

EndgameMoves(pos) ==
    EndgameKnightMoves(pos, pos.turn, Other(pos.turn))
        \cup EndgameKingMoves(pos, pos.turn, Other(pos.turn))

EndgameApply(pos, m) ==
    [turn |-> Other(pos.turn),
     k |-> IF m.piece = "K" THEN [pos.k EXCEPT ![pos.turn] = m.to] ELSE pos.k,
     n |-> [side \in {"w", "b"} |->
               IF side # pos.turn THEN pos.n[side] \ {m.to}
               ELSE IF m.piece = "N" THEN (pos.n[side] \ {m.from}) \cup {m.to}
               ELSE pos.n[side]]]

\* the side to move is in check
InCheck(pos) == KnightAttacks(pos.n[Other(pos.turn)], pos.k[pos.turn])

\* what chess.js writes after a move: # for mate, + for check
CheckSuffix(after) ==
    IF ~InCheck(after) THEN <<>> ELSE IF EndgameMoves(after) = {} THEN <<"#">> ELSE <<"+">>

SquareName(sq) == <<sq[1], Digits[sq[2] + 1]>>

\* what chess.js writes between the piece and the destination when other pieces of
\* the kind can go there too: the file of departure; the rank if a file is shared;
\* both if a file and a rank are shared
Disambiguator(m, others) ==
    IF others = {} THEN <<>>
    ELSE IF (\E o \in others : o.from[1] = m.from[1]) /\ (\E o \in others : o.from[2] = m.from[2])
         THEN SquareName(m.from)
    ELSE IF \E o \in others : o.from[1] = m.from[1] THEN <<Digits[m.from[2] + 1]>>
    ELSE <<m.from[1]>>

\* the move as chess.js writes it, without its check mark
StrippedSan(pos, m) ==
    <<m.piece>>
    \o Disambiguator(m, {o \in EndgameMoves(pos) :
                            o.piece = m.piece /\ o.to = m.to /\ o.from # m.from})
    \o (IF m.capture THEN <<"x">> ELSE <<>>) \o SquareName(m.to)

EndgameSan(pos, m) == StrippedSan(pos, m) \o CheckSuffix(EndgameApply(pos, m))

\* the token without a check mark at its end
Undecorated(token) ==
    IF token # <<>> /\ token[Len(token)] \in {"+", "#"}
    THEN Sub(token, 1, Len(token) - 1) ELSE token

\* the place of a square in the order in which chess.js generates moves
BoardOrder(sq) == (8 - sq[2]) * 8 + FileIndex(sq[1])

\* the letters of a token without its x
WithoutX(s) == SelectSeq(s, LAMBDA c : c # "x")

\* the moves a token names.  The strict parser: the token is the move as chess.js
\* writes it.  The permissive parser: the x of a capture may be left out; a token that
\* gives a file or a rank of departure, or both, names every move of the piece from
\* there to the destination, an x or none
NamedBy(pos, clean) ==
    {m \in EndgameMoves(pos) :
        \/ StrippedSan(pos, m) = clean
        \/ /\ FullMatch(<<One({m.piece}), Opt(FileChars), Opt(RankChars), Opt({"x"}),
                          One(FileChars), One(RankChars)>>, clean)
           /\ Sub(clean, Len(clean) - 1, Len(clean)) = SquareName(m.to)
           /\ \E from \in {WithoutX(Sub(clean, 2, Len(clean) - 2))} :
                 \/ from = <<>> /\ WithoutX(StrippedSan(pos, m)) = clean
                 \/ from = SquareName(m.from)
                 \/ Len(from) = 1 /\ from[1] \in {m.from[1], Digits[m.from[2] + 1]}}

\* the named move that chess.js comes to first
FirstNamed(named) ==
    CHOOSE m \in named : \A o \in named : BoardOrder(m.from) <= BoardOrder(o.from)

\* chess.move(token) on such a position
EndgameMove(chess, named) ==
    IF named = {} THEN [ok |-> FALSE, chess |-> chess]
    ELSE [ok |-> TRUE,
          chess |-> [pos |-> EndgameApply(chess.pos, FirstNamed(named)),
                     hist |-> Append(chess.hist, EndgameSan(chess.pos, FirstNamed(named)))]]

\* a Chess object: its position and its move history (the sans played)
NewChess == [pos |-> InitialPosition, hist |-> <<>>]
\* chess.fen() and new Chess(fen): the position survives, the history does not
chessFen(chess) == chess.pos
NewChessFromFen(fen) == [pos |-> fen, hist |-> <<>>]
\* chess.moves()
chessMoves(chess) ==
    IF IsEndgame(chess.pos)
    THEN {EndgameSan(chess.pos, m) : m \in EndgameMoves(chess.pos)}
    ELSE {San(m) : m \in LegalMoves(chess.pos)}
\* chess.move(token): ok, and the object after the move; not ok (null, or a throw)
\* leaves the object as it was
chessMove(chess, token) ==
    IF IsEndgame(chess.pos)
    THEN EndgameMove(chess, NamedBy(chess.pos, Undecorated(token)))
    ELSE LET m == ParseSan(chess.pos, token)
         IN IF m = NoMove THEN [ok |-> FALSE, chess |-> chess]
            ELSE [ok |-> TRUE,
                  chess |-> [pos |-> ApplyMove(chess.pos, m),
                             hist |-> Append(chess.hist, San(m))]]

RECURSIVE PlayAll(_, _)
\* the tokens played in order: ok iff each was legal where it was played
PlayAll(chess, tokens) ==
    IF tokens = <<>> THEN [ok |-> TRUE, chess |-> chess]
    ELSE LET r == chessMove(chess, Head(tokens))
         IN IF r.ok THEN PlayAll(r.chess, Tail(tokens)) ELSE [ok |-> FALSE, chess |-> r.chess]

MoveNumberPat == <<One(DigitChars), Star(DigitChars), One({"."})>>
\* token.replace(/\d+\./g, '')
StripMoveNumbers(token) == ReplaceRx(MoveNumberPat, FALSE, <<>>, token, 1)

\* the move tokens of a movetext: move numbers removed, white space separates
SanTokens(text) ==
    SelectSeq([k \in DOMAIN SplitWs(text) |-> StripMoveNumbers(SplitWs(text)[k])],
              LAMBDA t : t # <<>>)

\* chess.loadPgn(text) on a new Chess object: it throws (ok = FALSE) at the first
\* token that is no legal move; move numbers are not checked and may be absent
loadPgn(text) == PlayAll(NewChess, SanTokens(text))

(***************************************************************************)
(* tryOcrCorrections.                                                      *)
(***************************************************************************)
Null == <<"null">>

RECURSIVE FirstMember(_, _)
\* the first element of a sequence that is in a set, or Null
FirstMember(cands, set) ==
    IF cands = <<>> THEN Null
    ELSE IF Head(cands) \in set THEN Head(cands) ELSE FirstMember(Tail(cands), set)

\* the eight files, then the eight ranks
Qualifiers == <<"a", "b", "c", "d", "e", "f", "g", "h", "1", "2", "3", "4", "5", "6", "7", "8">>

\* the disambiguation step: the first of piece+qualifier+destination (with an x before
\* the destination for a capture) that chess.moves() lists, or Null
Disambiguate(move, chess) ==
    LET piece == <<move[1]>>
        destination == Sub(move, Len(move) - 1, Len(move))
        plain == FullMatch(<<One(PieceChars), Opt(FileChars), One(RankChars)>>, move)
        capture == FullMatch(<<One(PieceChars), One({"x"}), One(FileChars), One(RankChars)>>, move)
        infix == IF capture THEN <<"x">> ELSE <<>>
        cands == [k \in DOMAIN Qualifiers |-> piece \o <<Qualifiers[k]>> \o infix \o destination]
    IN IF plain \/ capture THEN FirstMember(cands, chessMoves(chess)) ELSE Null

RECURSIVE ReplaceRank(_, _, _, _)
\* move.replace(/([a-h])R/g, '$1S') from index i on
ReplaceRank(s, i, from, to) ==
    IF i > Len(s) THEN <<>>
    ELSE IF i < Len(s) /\ s[i] \in FileChars /\ s[i + 1] = from
         THEN <<s[i], to>> \o ReplaceRank(s, i + 2, from, to)
         ELSE <<s[i]>> \o ReplaceRank(s, i + 1, from, to)

RECURSIVE FirstAt(_, _, _)
\* the first index >= i where pattern pat matches, or 0
FirstAt(pat, s, i) ==
    IF i > Len(s) THEN 0
    ELSE IF Rx(pat, 1, s, i) # 0 THEN i ELSE FirstAt(pat, s, i + 1)

\* the first match of pat has its character at offset k (from 0) replaced by c
ReplaceFirst(pat, s, k, c) ==
    LET at == FirstAt(pat, s, 1)
    IN IF at = 0 THEN s ELSE [s EXCEPT ![at + k] = c]

\* the corrections table, in its order
Corrections ==
    << [kind |-> "rank", a |-> "6", b |-> "5"], [kind |-> "rank", a |-> "5", b |-> "6"],
       [kind |-> "rank", a |-> "3", b |-> "4"], [kind |-> "rank", a |-> "4", b |-> "3"],
       [kind |-> "rank", a |-> "2", b |-> "3"], [kind |-> "rank", a |-> "7", b |-> "8"],
       [kind |-> "rank", a |-> "8", b |-> "7"],
       [kind |-> "N", a |-> "a", b |-> "g"], [kind |-> "N", a |-> "g", b |-> "a"],
       [kind |-> "B", a |-> "a", b |-> "g"], [kind |-> "B", a |-> "g", b |-> "a"],
       [kind |-> "R", a |-> "a", b |-> "g"], [kind |-> "R", a |-> "g", b |-> "a"],
       [kind |-> "Q", a |-> "a", b |-> "g"], [kind |-> "Q", a |-> "g", b |-> "a"],
       [kind |-> "file", a |-> "a", b |-> "g"], [kind |-> "file", a |-> "g", b |-> "a"],
       [kind |-> "file", a |-> "b", b |-> "h"], [kind |-> "file", a |-> "h", b |-> "b"],
       [kind |-> "file", a |-> "c", b |-> "e"], [kind |-> "file", a |-> "e", b |-> "c"],
       [kind |-> "file", a |-> "d", b |-> "a"],
       [kind |-> "char", a |-> "l", b |-> "1"], [kind |-> "char", a |-> "1", b |-> "l"] >>

\* move.replace(pattern, replacement) for one entry of the table
Correct(c, move) ==
    CASE c.kind = "rank" -> ReplaceRank(move, 1, c.a, c.b)
      [] c.kind = "file" -> ReplaceFirst(<<One({c.a}), One(RankChars)>>, move, 0, c.b)
      [] c.kind = "char" -> ReplaceFirst(<<One({c.a})>>, move, 0, c.b)
      [] OTHER -> ReplaceFirst(<<One({c.kind}), One({c.a}), One(DigitChars)>>, move, 1, c.b)

RECURSIVE Substitute(_, _, _)
\* the substitution loop from entry k on: the first corrected token, different from the
\* move, that a new Chess(chess.fen()) accepts, or Null
Substitute(move, chess, k) ==
    IF k > Len(Corrections) THEN Null
    ELSE LET corrected == Correct(Corrections[k], move)
         IN IF corrected # move /\ chessMove(NewChessFromFen(chessFen(chess)), corrected).ok
            THEN corrected
            ELSE Substitute(move, chess, k + 1)

tryOcrCorrections(move, chess) ==
    LET d == Disambiguate(move, chess)
    IN IF d # Null THEN d ELSE Substitute(move, chess, 1)

\* The same call with the Chess object it is given followed through it: what it
\* returns (result) and the given object as the call leaves it (chess).
\* const testChess = new Chess(chess.fen())
TestChess(chess) == NewChessFromFen(chessFen(chess))

\* a loop that tries the candidate on the object it was given
TriedOnGiven(chess, corrected) == chessMove(chess, corrected)

\* testChess.move(corrected): whether the candidate is a move, and the given object
\* after the try
Tried(chess, corrected) == [ok |-> chessMove(TestChess(chess), corrected).ok, chess |-> chess]

RECURSIVE SubstituteOn(_, _, _)
AfterTry(corrected, tried, move, k) ==
    IF tried.ok THEN [result |-> corrected, chess |-> tried.chess]
    ELSE SubstituteOn(move, tried.chess, k + 1)
SubstituteOn(move, chess, k) ==
    IF k > Len(Corrections) THEN [result |-> Null, chess |-> chess]
    ELSE IF Correct(Corrections[k], move) = move THEN SubstituteOn(move, chess, k + 1)
    ELSE AfterTry(Correct(Corrections[k], move), Tried(chess, Correct(Corrections[k], move)),
                  move, k)

\* chess.moves() reads the given object and leaves it as it is
Corrector(move, chess) ==
    IF Disambiguate(move, chess) # Null
    THEN [result |-> Disambiguate(move, chess), chess |-> chess]
    ELSE SubstituteOn(move, chess, 1)

(***************************************************************************)
(* ParseResult and the return value of validatePgnWithDetails.  A string   *)
(* property that is not set is Undefined, a number that is not set is -1,  *)
(* isPartial that is not set is FALSE.                                     *)
(***************************************************************************)
NoResult ==
    [success |-> FALSE, pgn |-> Undefined, error |-> Undefined, movesFound |-> -1,
     isPartial |-> FALSE, totalMovesInImage |-> -1, imageQualityWarning |-> Undefined]
\* a rejection that drops its reason
Unexplained(error) == NoResult
\* { success: false, error }
Failure(error) == [NoResult EXCEPT !.error = error]
Success(pgn, movesFound, isPartial) ==
    [NoResult EXCEPT !.success = TRUE, !.pgn = pgn, !.movesFound = movesFound,
                     !.isPartial = isPartial]

NoValidation == [valid |-> FALSE, failedAt |-> Undefined, partialPgn |-> Undefined, moveCount |-> -1]

\* Math.ceil(n / 2)
Ceil2(n) == (n + 1) \div 2

RECURSIVE HistorySegments(_, _)
\* the segments of formatHistoryAsPgn from (1-based) index j on
HistorySegments(history, j) ==
    IF j > Len(history) THEN <<>>
    ELSE LET whiteMove == history[j]
             blackMove == IF j + 1 <= Len(history) THEN history[j + 1] ELSE Undefined
             fragment == TrimEnd(NumStr((j - 1) \div 2 + 1) \o <<".", " ">> \o whiteMove)
         IN IF ~Truthy(whiteMove) /\ ~Truthy(blackMove) THEN HistorySegments(history, j + 2)
            ELSE <<fragment \o (IF Truthy(blackMove) THEN <<" ">> \o blackMove ELSE <<>>)>>
                     \o HistorySegments(history, j + 2)

formatHistoryAsPgn(history) ==
    IF Len(history) = 0 THEN <<>> ELSE Trim(JoinWith(HistorySegments(history, 1), <<" ">>))

RECURSIVE reconstructedPgnByIndex(_, _)
\* a reconstruction that numbers each pair by the index of its first half-move
reconstructedPgnByIndex(pm, j) ==
    IF j > Len(pm) THEN <<>>
    ELSE NumStr(j) \o <<".", " ">> \o pm[j]
             \o (IF j + 1 <= Len(pm) /\ Truthy(pm[j + 1]) THEN <<" ">> \o pm[j + 1] ELSE <<>>)
             \o <<" ">> \o reconstructedPgnByIndex(pm, j + 2)

RECURSIVE reconstructedPgn(_, _)
\* the reconstruction loop of validatePgnWithDetails from (1-based) index j on
reconstructedPgn(pm, j) ==
    IF j > Len(pm) THEN <<>>
    ELSE NumStr((j - 1) \div 2 + 1) \o <<".", " ">> \o pm[j]
             \o (IF j + 1 <= Len(pm) /\ Truthy(pm[j + 1]) THEN <<" ">> \o pm[j + 1] ELSE <<>>)
             \o <<" ">> \o reconstructedPgn(pm, j + 2)

\* a return value that counts half-moves
ValidationInPlies(pm, failed) ==
    [valid |-> FALSE,
     failedAt |-> IF Truthy(failed) THEN failed ELSE <<"end of game">>,
     partialPgn |-> IF Len(pm) > 0 THEN Trim(reconstructedPgnByIndex(pm, 1)) ELSE Undefined,
     moveCount |-> Len(pm)]

\* what validatePgnWithDetails returns after its token loop
ValidationAfterLoop(pm, failed) ==
    IF Len(pm) > 0
    THEN [valid |-> FALSE,
          failedAt |-> IF Truthy(failed) THEN failed ELSE <<"end of game">>,
          partialPgn |-> Trim(reconstructedPgn(pm, 1)),
          moveCount |-> Ceil2(Len(pm))]
    ELSE [valid |-> FALSE,
          failedAt |-> IF Truthy(failed) THEN failed ELSE <<"start">>,
          partialPgn |-> Undefined,
          moveCount |-> 0]

\* testGame.loadPgn(cleanedPgn) and the move count of the try block
TryLoaded(cleanedPgn, loaded) ==
    [cleanedPgn |-> cleanedPgn,
     valid |-> loaded.ok /\ Len(loaded.chess.hist) > 0,
     moveCount |-> Ceil2(Len(loaded.chess.hist))]
TryLoad(cleanedPgn) == TryLoaded(cleanedPgn, loadPgn(cleanedPgn))

\* the try block of validatePgnWithDetails: the text it replays, and whether loadPgn
\* took all of it
ValidationTry(pgn) == TryLoad(stripPgnMetadata(normalizeCastling(pgn)))

\* `${token} (move ${currentMoveNumber})`
FailedAt(token, number) == token \o <<" (move ">> \o NumStr(number) \o <<")">>

\* the end of parsePgnTextInput, from the validation result on
TextOutcome(v, pgn) ==
    IF v.valid THEN Success(pgn, v.moveCount, FALSE)
    ELSE IF Truthy(v.partialPgn) /\ v.moveCount > 0
         THEN Success(v.partialPgn, v.moveCount, TRUE)
         ELSE Failure(IF Truthy(v.failedAt)
                      THEN <<"Unable to parse PGN. Problem detected near ">> \o v.failedAt \o <<".">>
                      ELSE <<"Unable to parse PGN. Please verify the notation and try again.">>)

(***************************************************************************)
(* extractChessMoves, isValidMove, cleanMove.                              *)
(***************************************************************************)
RECURSIVE SpanEndNot(_, _, _)
\* the first index >= i of s that is in set (Len(s)+1 when there is none)
SpanEndNot(s, i, set) == IF i <= Len(s) /\ s[i] \notin set THEN SpanEndNot(s, i + 1, set) ELSE i

\* O and o, the letters the i flag lets /O/ match
OhI == {"O", "o"}
\* /^(O-O-O|O-O)$/i
IsCastleWord(s) ==
    \/ FullMatch(<<One(OhI), One({"-"}), One(OhI)>>, s)
    \/ FullMatch(<<One(OhI), One({"-"}), One(OhI), One({"-"}), One(OhI)>>, s)

\* [NBRQK]?[a-h]?[1-8]?x?[a-h][1-8], as written and with the i flag
SanPrefix ==
    <<Opt(PieceChars), Opt(FileChars), Opt(RankChars), Opt({"x"}), One(FileChars), One(RankChars)>>
FileCharsI == FileChars \cup {"A", "B", "C", "D", "E", "F", "G", "H"}
SanPrefixI ==
    <<Opt(PieceChars \cup {"n", "b", "r", "q", "k"}), Opt(FileCharsI), Opt(RankChars),
      Opt({"x", "X"}), One(FileCharsI), One(RankChars)>>
\* =[NBRQ] with the i flag
PromotionI == <<One({"="}), One({"N", "B", "R", "Q", "n", "b", "r", "q"})>>

\* the tests of isValidMove on the normalized move
ValidNormalized(normalizedMove) ==
    \/ IsCastleWord(normalizedMove)
    \/ /\ \E k \in 1..(Len(normalizedMove) - 1) :
             normalizedMove[k] \in FileChars /\ normalizedMove[k + 1] \in RankChars
       /\ \/ FullMatch(SanPrefixI, normalizedMove)
          \/ FullMatch(SanPrefixI \o PromotionI, normalizedMove)

isValidMove(move) ==
    IF ~Truthy(move) \/ Len(move) < 2 THEN FALSE
    ELSE ValidNormalized(normalizeCastling(
             Trim(SelectSeq(move, LAMBDA c : c \notin {"+", "#", "?", "!"}))))

\* toUpperCase of a castling word
ToUpperCase(s) == [k \in DOMAIN s |-> IF s[k] = "o" THEN "O" ELSE s[k]]
UpperIfCastle(cleaned) == IF IsCastleWord(cleaned) THEN ToUpperCase(cleaned) ELSE cleaned
cleanMove(move) == UpperIfCastle(normalizeCastling(Trim(move)))

\* the characters [^\s\d] leaves out
Gap == WhiteSpace \cup DigitChars
NoMatch == [ok |-> FALSE, moveNum |-> 0, whiteMove |-> Undefined, blackMove |-> Undefined, end |-> 0]
\* the match of /(\d+)\.\s*([^\s\d]+)(?:\s+([^\s\d]+))?/ that starts at index i, if any:
\* digits up to d, a dot, white space up to w, the white move up to e, and then, if
\* they are there, white space up to b and the black move up to f
SequentialAt(s, i) ==
    LET d == SpanEnd(s, i, DigitChars)
        w == SpanEnd(s, d + 1, WhiteSpace)
        e == SpanEndNot(s, w, Gap)
        b == SpanEnd(s, e, WhiteSpace)
        f == IF b > e THEN SpanEndNot(s, b, Gap) ELSE b
    IN IF d > i /\ d <= Len(s) /\ s[d] = "." /\ e > w
       THEN [ok |-> TRUE, moveNum |-> ParseInt(Sub(s, i, d - 1)), whiteMove |-> Sub(s, w, e - 1),
             blackMove |-> IF f > b THEN Sub(s, b, f - 1) ELSE Undefined,
             end |-> IF f > b THEN f ELSE e]
       ELSE NoMatch

NoEntry == [white |-> Undefined, black |-> Undefined]
\* the body of the while loop for one match: moves is the array as a function from
\* move numbers (index + 1) to entries; an entry at index -1 is no element of the array
Entered(moves, m) ==
    IF ~isValidMove(m.whiteMove) \/ m.moveNum < 1 THEN moves
    ELSE [n \in DOMAIN moves \cup {m.moveNum} |->
            IF n # m.moveNum THEN moves[n]
            ELSE [white |-> cleanMove(m.whiteMove),
                  black |-> IF Truthy(m.blackMove) /\ isValidMove(m.blackMove)
                            THEN cleanMove(m.blackMove)
                            ELSE IF n \in DOMAIN moves THEN moves[n].black ELSE Undefined]]

RECURSIVE SequentialScan(_, _, _)
AfterMatch(s, i, moves, m) ==
    IF m.ok THEN SequentialScan(s, m.end, Entered(moves, m)) ELSE SequentialScan(s, i + 1, moves)
\* the while loop over the matches of sequentialPattern from index i on
SequentialScan(s, i, moves) ==
    IF i > Len(s) THEN moves ELSE AfterMatch(s, i, moves, SequentialAt(s, i))

RECURSIVE NumberedPgn(_, _, _)
\* moves.forEach from move number n on, up to the last one
NumberedPgn(moves, n, last) ==
    IF n > last THEN <<>>
    ELSE (IF n \in DOMAIN moves /\ (Truthy(moves[n].white) \/ Truthy(moves[n].black))
          THEN NumStr(n) \o <<".", " ">>
                 \o (IF Truthy(moves[n].white) THEN moves[n].white \o <<" ">> ELSE <<>>)
                 \o (IF Truthy(moves[n].black) THEN moves[n].black \o <<" ">> ELSE <<>>)
          ELSE <<>>) \o NumberedPgn(moves, n + 1, last)

\* the end of the match of singleMovePattern that starts at index i, from the end e of
\* its first six elements (0: they do not match); 0 when there is none
SingleEndFrom(s, i, e) ==
    IF e # 0
    THEN LET p == IF e + 1 <= Len(s) /\ s[e] = "=" /\ s[e + 1] \in {"N", "B", "R", "Q"}
                  THEN e + 2 ELSE e
         IN IF p <= Len(s) /\ s[p] \in {"+", "#"} THEN p + 1 ELSE p
    ELSE IF StartsAt(s, i, Queenside) THEN i + 5
    ELSE IF StartsAt(s, i, Kingside) THEN i + 3
    ELSE 0
SingleEnd(s, i) == SingleEndFrom(s, i, Rx(SanPrefix, 1, s, i))

RECURSIVE AllMatches(_, _)
MatchOrSkip(s, i, e) ==
    IF e > i THEN <<Sub(s, i, e - 1)>> \o AllMatches(s, e) ELSE AllMatches(s, i + 1)
\* normalizedText.match(singleMovePattern) from index i on (<<>> for null)
AllMatches(s, i) == IF i > Len(s) THEN <<>> ELSE MatchOrSkip(s, i, SingleEnd(s, i))

RECURSIVE LoosePgn(_, _, _)
LoosePair(allMoves, k, moveNumber, white, black) ==
    IF isValidMove(white)
    THEN NumStr(moveNumber) \o <<".", " ">> \o white \o <<" ">>
           \o (IF Truthy(black) /\ isValidMove(black) THEN black \o <<" ">> ELSE <<>>)
           \o LoosePgn(allMoves, k + 2, moveNumber + 1)
    ELSE LoosePgn(allMoves, k + 2, moveNumber)
\* the for loop over allMoves from (1-based) index k on
LoosePgn(allMoves, k, moveNumber) ==
    IF k > Len(allMoves) THEN <<>>
    ELSE LoosePair(allMoves, k, moveNumber, cleanMove(allMoves[k]),
                   IF k + 1 <= Len(allMoves) /\ Truthy(allMoves[k + 1])
                   THEN cleanMove(allMoves[k + 1]) ELSE <<>>)

\* a loose-sequence mode that starts with one token
LooseExtractFromOne(allMoves) ==
    IF Len(allMoves) >= 1 THEN Trim(LoosePgn(allMoves, 1, 1)) ELSE <<>>

LooseExtract(allMoves) ==
    IF Len(allMoves) >= 2 THEN Trim(LoosePgn(allMoves, 1, 1)) ELSE <<>>
MaxKey(moves) == CHOOSE n \in DOMAIN moves : \A k \in DOMAIN moves : k <= n
ExtractWith(normalizedText, moves) ==
    IF DOMAIN moves # {} THEN Trim(NumberedPgn(moves, 1, MaxKey(moves)))
    ELSE LooseExtract(AllMatches(normalizedText, 1))
ExtractFrom(normalizedText) ==
    ExtractWith(normalizedText, SequentialScan(normalizedText, 1, <<>>))
extractChessMoves(text) == ExtractFrom(Trim(CollapseWs(normalizeCastling(text))))
\* extractChessMoves(text) gets to its loose-sequence mode: the numbered pattern has
\* filled no entry of moves
LooseModeRuns(text) ==
    DOMAIN SequentialScan(Trim(CollapseWs(normalizeCastling(text))), 1, <<>>) = {}

RECURSIVE CountMoveNumbers(_, _)
CountOrSkip(s, i, d) ==
    IF d > i /\ d <= Len(s) /\ s[d] = "." THEN 1 + CountMoveNumbers(s, d + 1)
    ELSE CountMoveNumbers(s, i + 1)
\* (s.match(/\d+\./g) || []).length from index i on
CountMoveNumbers(s, i) ==
    IF i > Len(s) THEN 0 ELSE CountOrSkip(s, i, SpanEnd(s, i, DigitChars))

(***************************************************************************)
(* Inputs.                                                                 *)
(***************************************************************************)
tE4 == <<"e", "4">>
tE5 == <<"e", "5">>
tNf3 == <<"N", "f", "3">>
tNc6 == <<"N", "c", "6">>
tA6 == <<"a", "6">>
tZz9 == <<"Z", "z", "9">>
MoveTokens == {tE4, tE5, tNf3, tNc6, tA6, tZz9}

\* the sequences of at most n elements of a set
SeqsUpTo(set, n) == UNION {[1..k -> set] : k \in 0..n}

Layouts == {"numbered", "renumbered", "glued", "bare"}

\* the written form of a sequence of half-moves: "1. e4 e5 2. Nf3", the same with the
\* numbers starting at 5, "1.e4 e5 2.Nf3", or "e4 e5 Nf3"
WrittenPly(plies, k, layout) ==
    LET number == NumStr((k + 1) \div 2 + (IF layout = "renumbered" THEN 4 ELSE 0)) \o <<".">>
    IN IF layout = "bare" \/ k % 2 = 0 THEN plies[k]
       ELSE IF layout = "glued" THEN number \o plies[k]
       ELSE number \o <<" ">> \o plies[k]
Written(plies, layout) ==
    JoinWith([k \in DOMAIN plies |-> WrittenPly(plies, k, layout)], <<" ">>)

\* texts with no notation in them
BlankTexts == {<<>>, <<" ">>, <<"\n">>, <<"\r", "\n">>, <<"NBSP", " ">>, <<"\t", " ", "\n">>,
               <<"*", "*">>, <<"BACKTICK", "BACKTICK", "BACKTICK">>}

\* "1. e4 e5 2. Nf3 Nc6 3. Zz9 a6"
PartialRecoveryExample == Written(<<tE4, tE5, tNf3, tNc6, tZz9, tA6>>, "numbered")

\* "1. e4 2. e5 Zz9": Black's first move is not written
SkippedSideExample ==
    Written(<<tE4>>, "numbered") \o <<" ", "2", ".", " ">> \o tE5 \o <<" ">> \o tZz9

TextInputs ==
    {Written(p, l) : <<p, l>> \in SeqsUpTo(MoveTokens, MaxPlies) \X Layouts}
        \cup BlankTexts \cup {PartialRecoveryExample, SkippedSideExample}

\* the cells of a CSV file, and its rows with a White and a Black cell
CsvCells == {<<>>, tE4, <<" ", "e", "5">>, tZz9}
CsvRows == {[White |-> w, Black |-> b] : <<w, b>> \in CsvCells \X CsvCells}
\* the header row names the two columns White/Black, white/black or WHITE/BLACK
Headers == {"White", "white", "WHITE"}
\* what Papa.parse makes of a file: rows under a header, or an error
CsvFiles ==
    {[kind |-> "rows", header |-> h, rows |-> r] :
        <<h, r>> \in Headers \X SeqsUpTo(CsvRows, MaxRows)}
      \cup {[kind |-> "error", message |-> <<"Unable to read file">>]}

tCastle == <<"O", "-", "O">>
OcrTokens == {tE4, tE5, tZz9, tCastle}
\* the texts a recognition (local or external) may come up with
RecognizedTexts ==
    {Written(p, l) : <<p, l>> \in SeqsUpTo(OcrTokens, MaxOcrPlies) \X {"numbered", "bare"}}
\* what worker.recognize does with an image: it throws, or it returns a text
ImageFiles == {[ocr |-> "throws", text |-> <<>>]} \cup {[ocr |-> "text", text |-> t] : t \in RecognizedTexts}

NoNotationFound ==
    <<"N", "O", "_", "N", "O", "T", "A", "T", "I", "O", "N", "_", "F", "O", "U", "N", "D">>
\* "```pgn\n1. e4 e5\n```"
FencedReply ==
    <<"BACKTICK", "BACKTICK", "BACKTICK", "p", "g", "n", "\n">> \o Written(<<tE4, tE5>>, "numbered")
        \o <<"\n", "BACKTICK", "BACKTICK", "BACKTICK">>
ReplyTexts == RecognizedTexts \cup {NoNotationFound, FencedReply}
\* how the external recognition goes: the file cannot be read, no API key is set, fetch
\* throws, the response is not ok, or it carries a reply: a plain text, or a JSON
\* object with its moves and totalMoves
NoGemini == [kind |-> "none", json |-> FALSE, moves |-> <<>>, totalMoves |-> 0]
GeminiOutcomes ==
    {[NoGemini EXCEPT !.kind = k] : k \in {"unreadable", "nokey", "fetchthrows", "httperror"}}
      \cup {[kind |-> "reply", json |-> FALSE, moves |-> t, totalMoves |-> 0] : t \in ReplyTexts}
      \cup {[kind |-> "reply", json |-> TRUE, moves |-> t, totalMoves |-> 3] : t \in ReplyTexts}

NoFile == [kind |-> "none"]

(***************************************************************************)
(* The state.  One call of an entry pipeline: its input, where it is (pc), *)
(* the locals of validatePgnWithDetails while its token loop runs, and the *)
(* values returned.  log and boards only observe: log lists the tokens the *)
(* loop has offered to the oracle and what became of each, boards counts   *)
(* the Chess objects made by parsePgnTextInput and validatePgnWithDetails. *)
(***************************************************************************)
VARIABLES entry, input, file, pc, caller, moves, i, testGame, partialMoves, failedAtMove,
          currentMoveNumber, validation, result, log, boards, gemini, geminiCalls

pipelineVars == <<entry, input, file, pc, caller, moves, i, testGame, partialMoves, failedAtMove,
                  currentMoveNumber, validation, result, log, boards, gemini, geminiCalls>>

\* The normalizers on their own: texts holds a text and, after it, what each
\* application made of the one before; applied names the functions applied.
VARIABLES texts, applied

normVars == <<texts, applied>>

\* The hooks of the viewer, as App uses them.  useChessGame: game (the Chess object on
\* the board), historyRef (historyRef.current), moveHistory and currentMoveIndex (of
\* gameState; moveHistory is kept as the list of played moves that getMoveHistory
\* pairs up), mainLinePgn, isInAnalysisMode.  useAutoPlay: isPlaying.  lastOp and
\* mainLine only observe: the operation called last with the index it was called
\* at, and the moves that the last loadPgn called by App has loaded.
VARIABLES game, historyRef, moveHistory, currentMoveIndex, mainLinePgn, isInAnalysisMode,
          isPlaying, lastOp, mainLine

hookVars == <<game, historyRef, moveHistory, currentMoveIndex, mainLinePgn, isInAnalysisMode>>
gameVars == <<hookVars, isPlaying, lastOp, mainLine>>

\* tryOcrCorrections on its own, called as the token loop calls it: corrMove is the
\* token the oracle has rejected, corrChess the Chess object (testGame), replacement
\* the value returned, corrPc where the loop is.  corrGiven only observes: the object
\* as it was when it was passed.
VARIABLES corrPc, corrMove, corrChess, corrGiven, replacement

corrVars == <<corrPc, corrMove, corrChess, corrGiven, replacement>>

\* extractChessMoves on its own: the text is exPlies written in the layout exLayout,
\* extracted is the value returned, exMode the mode that has made it ("numbered",
\* "loose"), exPc where the call is.
VARIABLES exPc, exPlies, exLayout, exMode, extracted

exVars == <<exPc, exPlies, exLayout, exMode, extracted>>

\* UploadDialog: isProcessing, selectedFile (whether a file is selected), inputMode,
\* pgnInput (whether the text area holds more than white space), dialogResult (result:
\* "null", "success" or "failure") and dialogOpen (open, which App holds).  inFlight,
\* started and delivered only observe: the parse runs that have started and not yet
\* delivered their result, how many have started, and for each call of onGameLoaded
\* the run that made it and the runs in flight with it.
VARIABLES isProcessing, selectedFile, inputMode, pgnInput, dialogResult, dialogOpen,
          inFlight, started, delivered

dialogVars == <<isProcessing, selectedFile, inputMode, pgnInput, dialogResult, dialogOpen,
                inFlight, started, delivered>>

\* what the pipelines, the normalizers and the hooks leave alone
aside == <<corrVars, exVars, dialogVars>>

\* what no entry pipeline touches
outside == <<normVars, gameVars, aside>>

vars == <<pipelineVars, outside>>

loopVars == <<moves, i, testGame, partialMoves, failedAtMove, currentMoveNumber, log>>

\* no text is being normalized
NormIdle == texts = <<>> /\ applied = <<>>
\* the hooks as they are when App mounts
HooksMounted ==
    /\ game = NewChess
    /\ historyRef = <<>>
    /\ moveHistory = <<>>
    /\ currentMoveIndex = -1
    /\ mainLinePgn = <<>>
    /\ isInAnalysisMode = FALSE
    /\ isPlaying = FALSE
    /\ lastOp = [name |-> "none", from |-> -1]
    /\ mainLine = <<>>
\* tryOcrCorrections is not called
CorrIdle ==
    /\ corrPc = "idle"
    /\ corrMove = <<>>
    /\ corrChess = NewChess
    /\ corrGiven = NewChess
    /\ replacement = Null
\* extractChessMoves is not called
ExtractIdle ==
    /\ exPc = "idle"
    /\ exPlies = <<>>
    /\ exLayout = "bare"
    /\ exMode = "none"
    /\ extracted = <<>>
\* UploadDialog as it is mounted, closed
DialogMounted ==
    /\ isProcessing = FALSE
    /\ selectedFile = FALSE
    /\ inputMode = "file"
    /\ pgnInput = FALSE
    /\ dialogResult = "null"
    /\ dialogOpen = FALSE
    /\ inFlight = {}
    /\ started = 0
    /\ delivered = <<>>
AsideIdle == CorrIdle /\ ExtractIdle /\ DialogMounted
\* the locals and the outcome of an entry pipeline before its call
PipelineFresh ==
    /\ caller = "none"
    /\ moves = <<>>
    /\ i = 1
    /\ testGame = NewChess
    /\ partialMoves = <<>>
    /\ failedAtMove = <<>>
    /\ currentMoveNumber = 1
    /\ validation = NoValidation
    /\ result = NoResult
    /\ log = <<>>
    /\ boards = 0
    /\ gemini = NoGemini
    /\ geminiCalls = 0
\* no entry pipeline is called
PipelineIdle == entry = "none" /\ input = <<>> /\ file = NoFile /\ pc = "idle" /\ PipelineFresh

Init ==
    /\ \/ entry = "text" /\ input \in TextInputs /\ file = NoFile
       \/ entry = "csv" /\ input = <<>> /\ file \in CsvFiles
       \/ entry = "image" /\ input = <<>> /\ file \in ImageFiles
    /\ pc = "start"
    /\ PipelineFresh
    /\ NormIdle
    /\ HooksMounted
    /\ AsideIdle

\* validatePgnWithDetails(pgn) up to its token loop, for a caller: it returns valid, or
\* enters the loop with a new board and no accepted move
EnterValidation(pgn, from) ==
    \E try \in {ValidationTry(pgn)} :
       /\ caller' = from
       /\ IF try.valid
          THEN /\ validation' = [NoValidation EXCEPT !.valid = TRUE, !.moveCount = try.moveCount]
               /\ UNCHANGED loopVars
          ELSE /\ validation' = NoValidation
               /\ moves' = SplitWs(try.cleanedPgn)
               /\ i' = 1
               /\ testGame' = NewChess
               /\ partialMoves' = <<>>
               /\ failedAtMove' = <<>>
               /\ currentMoveNumber' = 1
               /\ log' = <<>>

\* the candidates loop of parsePgnTextInput: the history of the first candidate that
\* loadPgn takes with at least one move, or <<>>
RECURSIVE FirstLoaded(_)
HistoryOr(loaded, rest) ==
    IF loaded.ok /\ Len(loaded.chess.hist) > 0 THEN loaded.chess.hist ELSE FirstLoaded(rest)
FirstLoaded(candidates) ==
    IF candidates = <<>> THEN <<>> ELSE HistoryOr(loadPgn(Head(candidates)), Tail(candidates))

\* the candidates of parsePgnTextInput
Candidates(normalizedInput, stripped) ==
    IF Truthy(stripped) /\ stripped # normalizedInput
    THEN <<normalizedInput, stripped>> ELSE <<normalizedInput>>

\* parsePgnTextInput up to the token loop of validatePgnWithDetails
ParsePgnTextInput ==
    /\ pc = "start" /\ entry = "text"
    /\ \E cleanedInput \in {cleanPgnInput(input)} :
       \E normalizedInput \in {normalizeCastling(cleanedInput)} :
       \E stripped \in {stripPgnMetadata(normalizedInput)} :
       \E candidates \in {Candidates(normalizedInput, stripped)} :
       \E history \in {FirstLoaded(candidates)} :
       \E pgn \in {IF Truthy(stripped) THEN stripped ELSE normalizedInput} :
          IF ~Truthy(cleanedInput)
          THEN /\ result' = Failure(<<"Please paste a valid PGN string.">>)
               /\ pc' = "done"
               /\ UNCHANGED <<caller, validation, loopVars, boards>>
          ELSE IF Len(history) > 0
          THEN /\ result' = Success(formatHistoryAsPgn(history), Ceil2(Len(history)), FALSE)
               /\ pc' = "done"
               /\ boards' = boards + 1
               /\ UNCHANGED <<caller, validation, loopVars>>
          ELSE /\ EnterValidation(pgn, "text")
               /\ boards' = boards + Len(candidates) + 2
               /\ IF validation'.valid
                  THEN result' = TextOutcome(validation', pgn) /\ pc' = "done"
                  ELSE result' = result /\ pc' = "replay"
    /\ UNCHANGED <<entry, input, file, gemini, geminiCalls>>
    /\ UNCHANGED outside

\* acceptedMove.corrected for an element of partialMoves: partialMoves is a string[],
\* and a string has no such property
correctedFlag(acceptedMove) == Undefined

\* a loop that goes on to the next token after a token it could not repair
OnUnrepairedSkip(k) == [pc |-> "replay", i |-> k + 1]

\* a loop that offers the token it could not repair once more
OnUnrepairedRetry(k) == [pc |-> "replay", i |-> k]

\* the loop's step after a token that is neither legal nor repaired: break
OnUnrepaired(k) == [pc |-> "halted", i |-> k]

\* a loop that keeps the token as it was read
PushedAsRead(cleanToken, correctedMove) == cleanToken

\* what the loop pushes on partialMoves for a repaired token
Pushed(cleanToken, correctedMove) == correctedMove

\* one iteration of the token loop of validatePgnWithDetails
ReplayToken ==
    /\ pc = "replay" /\ i <= Len(moves)
    /\ \E token \in {Trim(moves[i])} :
       \E bare \in {Trim(StripMoveNumbers(token))} :
       \E cleanToken \in {normalizeCastling(bare)} :
       \E attemptedMove \in {chessMove(testGame, cleanToken)} :
       \E correctedMove \in {IF attemptedMove.ok \/ bare = <<>> THEN Null
                              ELSE tryOcrCorrections(cleanToken, testGame)} :
       \E afterCorrection \in {chessMove(testGame, correctedMove)} :
          IF token = <<>> \/ (~FullMatch(MoveNumberPat, token) /\ bare = <<>>)
          THEN /\ i' = i + 1
               /\ UNCHANGED <<pc, testGame, partialMoves, failedAtMove, currentMoveNumber, log>>
          ELSE IF FullMatch(MoveNumberPat, token)
          THEN /\ currentMoveNumber' = ParseInt(token)
               /\ i' = i + 1
               /\ UNCHANGED <<pc, testGame, partialMoves, failedAtMove, log>>
          ELSE IF attemptedMove.ok
          THEN /\ testGame' = attemptedMove.chess
               /\ partialMoves' = Append(partialMoves, cleanToken)
               /\ log' = Append(log, [index |-> i, token |-> cleanToken, pushed |-> cleanToken,
                                     outcome |-> "accepted"])
               /\ i' = i + 1
               /\ UNCHANGED <<pc, failedAtMove, currentMoveNumber>>
          ELSE IF correctedMove # Null
          THEN /\ partialMoves' = Append(partialMoves, Pushed(cleanToken, correctedMove))
               /\ testGame' = afterCorrection.chess
               /\ log' = Append(log, [index |-> i, token |-> cleanToken, pushed |-> correctedMove,
                                     outcome |-> "corrected"])
               /\ i' = i + 1
               \* testGame.move(correctedMove) outside any try: a throw leaves the function
               /\ pc' = IF afterCorrection.ok THEN "replay" ELSE "threw"
               /\ UNCHANGED <<failedAtMove, currentMoveNumber>>
          ELSE /\ failedAtMove' = FailedAt(token, currentMoveNumber)
               /\ log' = Append(log, [index |-> i, token |-> cleanToken, pushed |-> Null,
                                     outcome |-> "failed"])
               /\ pc' = OnUnrepaired(i).pc
               /\ i' = OnUnrepaired(i).i
               /\ UNCHANGED <<testGame, partialMoves, currentMoveNumber>>
    /\ UNCHANGED <<entry, input, file, caller, moves, validation, result, boards, gemini, geminiCalls>>
    /\ UNCHANGED outside

(***************************************************************************)
(* parseCSV.                                                               *)
(***************************************************************************)
\* row[name] for a row read under the header h: the cell, or undefined
Field(h, row, name) ==
    CASE name = "White" /\ h = "White" -> row.White
      [] name = "white" /\ h = "white" -> row.White
      [] name = "Black" /\ h = "White" -> row.Black
      [] name = "black" /\ h = "white" -> row.Black
      [] OTHER -> Undefined
\* a || b || ""
Either(a, b) == IF Truthy(a) THEN a ELSE IF Truthy(b) THEN b ELSE <<>>

\* the body of the for loop for one row; acc holds pgn and moveNumber
CsvRow(acc, white, black) ==
    IF ~Truthy(white) /\ ~Truthy(black) THEN acc
    ELSE [pgn |-> acc.pgn
                    \o (IF Truthy(white)
                        THEN NumStr(acc.moveNumber) \o <<".", " ">> \o Trim(white) \o <<" ">>
                        ELSE <<>>)
                    \o (IF Truthy(black) THEN Trim(black) \o <<" ">> ELSE <<>>),
          moveNumber |-> acc.moveNumber + 1]

RECURSIVE CsvLoop(_, _, _, _)
CsvLoop(h, rows, k, acc) ==
    IF k > Len(rows) THEN acc
    ELSE CsvLoop(h, rows, k + 1,
                 CsvRow(acc, Either(Field(h, rows[k], "White"), Field(h, rows[k], "white")),
                             Either(Field(h, rows[k], "Black"), Field(h, rows[k], "black"))))

\* what the complete callback resolves with
CsvOutcome(acc) ==
    IF Len(Trim(acc.pgn)) = 0 THEN Failure(<<"No valid chess moves found in CSV">>)
    ELSE Success(Trim(acc.pgn), acc.moveNumber - 1, FALSE)

ParseCSV ==
    /\ pc = "start" /\ entry = "csv"
    /\ result' = IF file.kind = "error"
                 THEN Failure(<<"CSV parsing error: ">> \o file.message)
                 ELSE CsvOutcome(CsvLoop(file.header, file.rows, 1,
                                         [pgn |-> <<>>, moveNumber |-> 1]))
    /\ pc' = "done"
    /\ UNCHANGED <<entry, input, file, caller, validation, loopVars, boards, gemini, geminiCalls>>
    /\ UNCHANGED outside

(***************************************************************************)
(* parseImage and parseImageWithGemini.                                    *)
(***************************************************************************)
\* parseImage up to the token loop of validatePgnWithDetails, or to the call of
\* parseImageWithGemini (pc = "fallback")
ParseImage ==
    /\ pc = "start" /\ entry = "image"
    /\ \E cleanedText \in {IF file.ocr = "throws" THEN <<>> ELSE extractChessMoves(file.text)} :
          IF file.ocr = "throws" \/ ~Truthy(cleanedText)
          THEN /\ pc' = "fallback"
               /\ UNCHANGED <<caller, validation, result, loopVars, boards>>
          ELSE /\ EnterValidation(cleanedText, "ocr")
               /\ boards' = boards + (IF validation'.valid THEN 1 ELSE 2)
               /\ IF validation'.valid
                  THEN /\ result' = Success(cleanedText, CountMoveNumbers(cleanedText, 1), FALSE)
                       /\ pc' = "done"
                  ELSE result' = result /\ pc' = "replay"
    /\ UNCHANGED <<entry, input, file, gemini, geminiCalls>>
    /\ UNCHANGED outside

\* `${error}` for what the try block of parseImageWithGemini throws
ErrorText(kind) ==
    CASE kind = "nokey" ->
           <<"Error: Gemini API key not configured. Please add VITE_GEMINI_API_KEY to your environment variables.">>
      [] kind = "httperror" -> <<"Error: Gemini API error: ", "5", "0", "0", " - ">>
      [] kind = "fetchthrows" -> <<"TypeError: Failed to fetch">>
      [] OTHER -> <<"Error: Failed to read file">>

\* extractedMoves after the JSON step: the trimmed reply, or the moves of its JSON
Extracted(reply) == IF reply.json THEN reply.moves ELSE Trim(reply.moves)

\* the four replacements and the trim, the first replacement innermost
Unmarked(extractedMoves) ==
    Trim(ReplaceRx(<<One({"#"}), One({"#"}), Star(WhiteSpace)>>, FALSE, <<>>,
          ReplaceLit(
            ReplaceRx(<<One({"BACKTICK"}), One({"BACKTICK"}), One({"BACKTICK"}), Star(WhiteSpace)>>,
                      FALSE, <<>>,
                      ReplaceRx(FencePgn, FALSE, <<>>, extractedMoves, 1), 1),
            1, <<"*", "*">>, <<>>), 1))

\* /^1\.\s+/.test(s)
StartsWithMoveOne(s) == Len(s) >= 3 /\ s[1] = "1" /\ s[2] = "." /\ s[3] \in WhiteSpace
\* cleanedText, from the normalized extractedMoves
CleanedFrom(extractedMoves) ==
    IF StartsWithMoveOne(extractedMoves) THEN extractedMoves
    ELSE extractChessMoves(extractedMoves)
CleanedText(extractedMoves) == CleanedFrom(normalizeCastling(Unmarked(extractedMoves)))

\* the warning of a result with fewer moves than the image holds
Warning(count, total, verb) ==
    IF total > 0 /\ count < total
    THEN <<"Only ">> \o NumStr(count) \o <<" of ">> \o NumStr(total) \o verb
    ELSE Undefined
\* the result of the valid path
GeminiComplete(cleanedText, moveCount, total) ==
    [success |-> TRUE, pgn |-> cleanedText, error |-> Undefined, movesFound |-> moveCount,
     isPartial |-> moveCount < total,
     totalMovesInImage |-> IF total > 0 THEN total ELSE -1,
     imageQualityWarning |-> Warning(moveCount, total, <<" moves were extracted from the image.">>)]
\* the results after a validation that is not valid
GeminiOutcome(v, total) ==
    IF Truthy(v.partialPgn) /\ v.moveCount > 0
    THEN [success |-> TRUE, pgn |-> v.partialPgn, error |-> Undefined,
          movesFound |-> v.moveCount, isPartial |-> TRUE,
          totalMovesInImage |-> IF total > 0 THEN total ELSE -1,
          imageQualityWarning |->
              Warning(v.moveCount, total, <<" moves could be extracted from the image.">>)]
    ELSE Failure(<<"Extracted notation is not valid chess moves. Failed at move ">>
                   \o v.failedAt \o <<". Please check the image quality and try again.">>)

\* a parseImage that calls parseImageWithGemini again when it fails
AfterGeminiRetry(success) == IF success THEN "done" ELSE "fallback"

\* where parseImage is once parseImageWithGemini has returned: it returns what it got
AfterGemini(success) == "done"

\* parseImageWithGemini up to the token loop of validatePgnWithDetails
ParseImageWithGemini ==
    /\ pc = "fallback"
    /\ geminiCalls' = geminiCalls + 1
    /\ \E outcome \in GeminiOutcomes :
       \E extractedMoves \in {Extracted(outcome)} :
       \E cleanedText \in {IF outcome.kind = "reply" THEN CleanedText(extractedMoves) ELSE <<>>} :
          /\ gemini' = outcome
          /\ IF outcome.kind # "reply"
             THEN /\ result' = Failure(<<"AI vision processing failed: ">> \o ErrorText(outcome.kind))
                  /\ pc' = AfterGemini(FALSE)
                  /\ UNCHANGED <<caller, validation, loopVars, boards>>
             ELSE IF extractedMoves = NoNotationFound \/ Len(extractedMoves) < 5
             THEN /\ result' = Failure(<<"Could not detect chess notation in image. Please ensure the image is clear and contains standard algebraic notation.">>)
                  /\ pc' = AfterGemini(FALSE)
                  /\ UNCHANGED <<caller, validation, loopVars, boards>>
             ELSE IF ~Truthy(cleanedText) \/ Len(cleanedText) < 5
             THEN /\ result' = Failure(<<"Could not detect valid chess notation in image. Please ensure the image is clear and contains standard algebraic notation.">>)
                  /\ pc' = AfterGemini(FALSE)
                  /\ UNCHANGED <<caller, validation, loopVars, boards>>
             ELSE /\ EnterValidation(cleanedText, "gemini")
                  /\ boards' = boards + (IF validation'.valid THEN 1 ELSE 2)
                  /\ IF validation'.valid
                     THEN /\ result' = GeminiComplete(cleanedText, CountMoveNumbers(cleanedText, 1),
                                                      outcome.totalMoves)
                          /\ pc' = AfterGemini(TRUE)
                     ELSE result' = result /\ pc' = "replay"
    /\ UNCHANGED <<entry, input, file>>
    /\ UNCHANGED outside

\* the token loop is over: validatePgnWithDetails returns, and its caller goes on:
\* parsePgnTextInput and parseImageWithGemini to their result, parseImage to
\* parseImageWithGemini
ReplayOver ==
    /\ \/ pc = "replay" /\ i > Len(moves)
       \/ pc = "halted"
    /\ validation' = ValidationAfterLoop(partialMoves, failedAtMove)
    /\ CASE caller = "text" -> result' = TextOutcome(validation', Undefined) /\ pc' = "done"
         [] caller = "gemini" ->
              /\ result' = GeminiOutcome(validation', gemini.totalMoves)
              /\ pc' = AfterGemini(result'.success)
         [] OTHER -> result' = result /\ pc' = "fallback"
    /\ UNCHANGED <<entry, input, file, caller, boards, loopVars, gemini, geminiCalls>>
    /\ UNCHANGED outside

Next == ParsePgnTextInput \/ ParseCSV \/ ParseImage \/ ParseImageWithGemini
            \/ ReplayToken \/ ReplayOver

Spec == Init /\ [][Next]_vars

(***************************************************************************)
(* The normalizers on their own: cleanPgnInput and normalizeCastling       *)
(* applied, in any order and up to MaxApplied times, to a short text over  *)
(* the characters of castling and of moves or to a spelling of castling.   *)
(***************************************************************************)
\* characters in an enumerated text
MaxText == 4
\* applications of a normalizer to one text
MaxApplied == 4

NormAlphabet == {"0", "o", "O", "-", " ", "4"}
\* a hyphen, bare or with a space on each side
Hyphens == {<<"-">>, <<" ", "-", " ">>}
\* the spellings of castling with zeros, and with the letter o in either case
Ohs == {<<<<"0">>, <<"0">>, <<"0">>>>} \cup [1..3 -> {<<"o">>, <<"O">>}]
KingsideSpellings == {x[1] \o h \o x[2] : <<x, h>> \in Ohs \X Hyphens}
QueensideSpellings ==
    {x[1] \o h[1] \o x[2] \o h[2] \o x[3] : <<x, h>> \in Ohs \X (Hyphens \X Hyphens)}
NormInputs == SeqsUpTo(NormAlphabet, MaxText) \cup KingsideSpellings \cup QueensideSpellings

NormInit ==
    /\ texts \in {<<t>> : t \in NormInputs}
    /\ applied = <<>>
    /\ PipelineIdle
    /\ HooksMounted
    /\ AsideIdle

CleanPgnInput ==
    /\ Len(applied) < MaxApplied
    /\ texts' = Append(texts, cleanPgnInput(texts[Len(texts)]))
    /\ applied' = Append(applied, "cleanPgnInput")
    /\ UNCHANGED <<pipelineVars, gameVars, aside>>

NormalizeCastling ==
    /\ Len(applied) < MaxApplied
    /\ texts' = Append(texts, normalizeCastling(texts[Len(texts)]))
    /\ applied' = Append(applied, "normalizeCastling")
    /\ UNCHANGED <<pipelineVars, gameVars, aside>>

NormNext == CleanPgnInput \/ NormalizeCastling

NormSpec == NormInit /\ [][NormNext]_vars

(***************************************************************************)
(* useChessGame and useAutoPlay, as App calls them: loadPgn with the text  *)
(* of a ParseResult, makeMove with a piece dropped on the board, goToMove  *)
(* with the index of a move of the list, the four navigation buttons,      *)
(* returnToMainGame, toggleAutoPlay, and the interval of useAutoPlay.      *)
(* (App does not call resetGame.)                                          *)
(***************************************************************************)
\* half-moves in the history of the hook
MaxGamePlies == 3

\* the games of the texts App hands to loadPgn: "1. e4", "1. e4 e5", "1. e4 e5 2. Nf3",
\* "1. Nf3 e5", and texts that do not load: "1. e5", "1. e4 Zz9", ""
GamesToLoad == {<<tE4>>, <<tE4, tE5>>, <<tE4, tE5, tNf3>>, <<tNf3, tE5>>, <<tE5>>, <<tE4, tZz9>>, <<>>}
PgnTexts == {Written(p, "numbered") : p \in GamesToLoad} \cup {FencedReply}
\* the moves a piece dropped on the board may stand for
Drops == {Push("d", 4), Push("e", 5), [piece |-> "N", file |-> "c", rank |-> 6, capture |-> FALSE]}

\* the replacements of loadPgn, the first one innermost, and the trim
cleanPgn(pgn) ==
    Trim(ReplaceRx(TwoPart(CapitalOh), TRUE, Kingside,
          ReplaceRx(ThreePart(CapitalOh), TRUE, Queenside,
           ReplaceRx(TwoPart(AnyOh), FALSE, Kingside,
            ReplaceRx(ThreePart(AnyOh), FALSE, Queenside,
             ReplaceRx(TwoPart(Zeros), FALSE, Kingside,
              ReplaceRx(ThreePart(Zeros), FALSE, Queenside,
               ReplaceRx(<<One({"#"}), One({"#"}), Star(WhiteSpace)>>, FALSE, <<>>,
                ReplaceLit(
                 ReplaceRx(<<One({"BACKTICK"}), One({"BACKTICK"}), One({"BACKTICK"}),
                             Star(WhiteSpace)>>, FALSE, <<>>,
                  ReplaceRx(FencePgn, FALSE, <<>>, pgn, 1), 1),
                 1, <<"*", "*">>, <<>>),
               1), 1), 1), 1), 1), 1), 1))

\* the operation called, and the currentMoveIndex it was called at
Called(name) == [name |-> name, from |-> currentMoveIndex]

\* allMoves.map((san) => ({ san, isCustom: false }))
Recorded(allMoves) == [k \in DOMAIN allMoves |-> [san |-> allMoves[k], isCustom |-> FALSE]]
\* the sans of played moves
Sans(played) == [k \in DOMAIN played |-> played[k].san]

\* getMoveHistory(allMoves).length
MoveHistoryLength(allMoves) == Ceil2(Len(allMoves))
\* canGoNext of App
canGoNext == currentMoveIndex < MoveHistoryLength(moveHistory) * 2 - 1

\* a loadPgn that leaves isInAnalysisMode as it is
LoadedPgnKeepMode(cleanedPgn, newGame) ==
    IF ~newGame.ok \/ Len(newGame.chess.hist) = 0
    THEN UNCHANGED hookVars
    ELSE /\ historyRef' = Recorded(newGame.chess.hist)
         /\ game' = newGame.chess
         /\ moveHistory' = Recorded(newGame.chess.hist)
         /\ currentMoveIndex' = Len(newGame.chess.hist) - 1
         /\ mainLinePgn' = cleanedPgn
         /\ UNCHANGED isInAnalysisMode

\* loadPgn(pgn) of the hook once the text is cleaned and loaded: nothing changes when
\* loadPgn of chess.js throws or loads no move
LoadedPgn(cleanedPgn, newGame) ==
    IF ~newGame.ok \/ Len(newGame.chess.hist) = 0
    THEN UNCHANGED hookVars
    ELSE /\ historyRef' = Recorded(newGame.chess.hist)
         /\ game' = newGame.chess
         /\ moveHistory' = Recorded(newGame.chess.hist)
         /\ currentMoveIndex' = Len(newGame.chess.hist) - 1
         /\ mainLinePgn' = cleanedPgn
         /\ isInAnalysisMode' = FALSE
HookLoadPgn(pgn) == \E cleaned \in {cleanPgn(pgn)} : LoadedPgn(cleaned, loadPgn(cleaned))

\* a goToMove that shows the board of moveIndex and leaves currentMoveIndex as it is
WentToMoveBoardOnly(moveIndex, newGame) ==
    /\ game' = newGame.chess
    /\ moveHistory' = historyRef
    /\ UNCHANGED <<currentMoveIndex, historyRef, mainLinePgn, isInAnalysisMode>>

\* goToMove(moveIndex) once the moves up to moveIndex are replayed on a new board:
\* nothing changes when a move throws
WentToMove(moveIndex, newGame) ==
    IF ~newGame.ok
    THEN UNCHANGED hookVars
    ELSE /\ game' = newGame.chess
         /\ moveHistory' = historyRef
         /\ currentMoveIndex' = moveIndex
         /\ UNCHANGED <<historyRef, mainLinePgn, isInAnalysisMode>>
\* s.slice(0, n), and the elements a loop up to n - 1 finds defined
Slice(s, n) == SubSeq(s, 1, IF n > Len(s) THEN Len(s) ELSE n)

goToMove(moveIndex) ==
    WentToMove(moveIndex, PlayAll(NewChess, Sans(Slice(historyRef, moveIndex + 1))))

goToNext ==
    IF currentMoveIndex < Len(historyRef) - 1
    THEN goToMove(currentMoveIndex + 1) ELSE UNCHANGED hookVars

\* what loadPgn makes of each text: the cleaned text and the Chess object it loads
PgnLoads == {[cleanPgn |-> cleanPgn(pgn), newGame |-> loadPgn(cleanPgn(pgn))] : pgn \in PgnTexts}

\* App calls loadPgn with a text
LoadPgn ==
    /\ \E load \in PgnLoads :
          /\ LoadedPgn(load.cleanPgn, load.newGame)
          /\ mainLine' = IF load.newGame.ok /\ Len(load.newGame.chess.hist) > 0
                         THEN load.newGame.chess.hist ELSE mainLine
    /\ lastOp' = Called("loadPgn")
    /\ UNCHANGED <<isPlaying, pipelineVars, normVars, aside>>

\* a makeMove that keeps the moves after the one shown
preservedMovesAll == historyRef

\* historyRef.current.slice(0, currentIndex + 1)
preservedMoves == Slice(historyRef, currentMoveIndex + 1)

\* a piece is dropped: makeMove(sourceSquare, targetSquare)
MakeMove ==
    /\ currentMoveIndex + 2 <= MaxGamePlies
    /\ \E m \in Drops :
          IF m \in LegalMoves(chessFen(game))
          THEN /\ game' = chessMove(NewChessFromFen(chessFen(game)), San(m)).chess
               /\ historyRef' = Append(preservedMoves,
                                       [san |-> San(m), isCustom |-> Truthy(mainLinePgn)])
               /\ moveHistory' = historyRef'
               /\ currentMoveIndex' = Len(historyRef') - 1
               /\ isInAnalysisMode' = (isInAnalysisMode \/ Truthy(mainLinePgn))
               /\ UNCHANGED mainLinePgn
          ELSE UNCHANGED hookVars
    /\ lastOp' = Called("makeMove")
    /\ UNCHANGED <<isPlaying, mainLine, pipelineVars, normVars, aside>>

\* a move of the list is clicked
GoToMove ==
    /\ \E moveIndex \in 0..(Len(moveHistory) - 1) : goToMove(moveIndex)
    /\ lastOp' = Called("goToMove")
    /\ UNCHANGED <<isPlaying, mainLine, pipelineVars, normVars, aside>>

GoToFirst ==
    /\ game' = NewChess
    /\ moveHistory' = historyRef
    /\ currentMoveIndex' = -1
    /\ lastOp' = Called("goToFirst")
    /\ UNCHANGED <<historyRef, mainLinePgn, isInAnalysisMode>>
    /\ UNCHANGED <<isPlaying, mainLine, pipelineVars, normVars, aside>>

GoToPrevious ==
    /\ IF currentMoveIndex >= 0 THEN goToMove(currentMoveIndex - 1) ELSE UNCHANGED hookVars
    /\ lastOp' = Called("goToPrevious")
    /\ UNCHANGED <<isPlaying, mainLine, pipelineVars, normVars, aside>>

GoToNext ==
    /\ goToNext
    /\ lastOp' = Called("goToNext")
    /\ UNCHANGED <<isPlaying, mainLine, pipelineVars, normVars, aside>>

GoToLast ==
    /\ IF Len(historyRef) > 0 THEN goToMove(Len(historyRef) - 1) ELSE UNCHANGED hookVars
    /\ lastOp' = Called("goToLast")
    /\ UNCHANGED <<isPlaying, mainLine, pipelineVars, normVars, aside>>

ReturnToMainGame ==
    /\ IF Truthy(mainLinePgn) THEN HookLoadPgn(mainLinePgn) ELSE UNCHANGED hookVars
    /\ lastOp' = Called("returnToMainGame")
    /\ UNCHANGED <<isPlaying, mainLine, pipelineVars, normVars, aside>>

ToggleAutoPlay ==
    /\ isPlaying' = ~isPlaying
    /\ lastOp' = Called("toggleAutoPlay")
    /\ UNCHANGED <<hookVars, mainLine, pipelineVars, normVars, aside>>

\* the effect of useAutoPlay has set an interval: isPlaying and canGoNext were true in
\* the render it ran after
IntervalSet == isPlaying /\ canGoNext
\* the callback of the interval, with the canGoNext of that render, takes the branch
\* setIsPlaying(false)
TickStopsAutoPlay == ~canGoNext

\* the interval fires
Tick ==
    /\ IntervalSet
    /\ IF TickStopsAutoPlay
       THEN isPlaying' = FALSE /\ UNCHANGED hookVars
       ELSE goToNext /\ UNCHANGED isPlaying
    /\ lastOp' = Called("tick")
    /\ UNCHANGED <<mainLine, pipelineVars, normVars, aside>>

GameInit == HooksMounted /\ PipelineIdle /\ NormIdle /\ AsideIdle

GameNext ==
    \/ LoadPgn \/ MakeMove \/ GoToMove \/ GoToFirst \/ GoToPrevious \/ GoToNext \/ GoToLast
    \/ ReturnToMainGame \/ ToggleAutoPlay \/ Tick

GameSpec == GameInit /\ [][GameNext]_vars

(***************************************************************************)
(* useChessGame with all it returns: the callbacks App calls, and          *)
(* resetGame, which the hook returns too.                                  *)
(***************************************************************************)
\* updateGameState(newGame) in resetGame: allMoves is historyRef.current, which is
\* emptied only afterwards
ResetPublished(allMoves) == allMoves

ResetGame ==
    /\ game' = NewChess
    /\ moveHistory' = ResetPublished(historyRef)
    /\ currentMoveIndex' = Len(ResetPublished(historyRef)) - 1
    /\ mainLinePgn' = <<>>
    /\ isInAnalysisMode' = FALSE
    /\ historyRef' = <<>>
    /\ mainLine' = <<>>
    /\ lastOp' = Called("resetGame")
    /\ UNCHANGED <<isPlaying, pipelineVars, normVars, aside>>

HookNext == GameNext \/ ResetGame

HookSpec == GameInit /\ [][HookNext]_vars

(***************************************************************************)
(* tryOcrCorrections on its own: the catch block of the token loop calls   *)
(* it with a token the oracle has rejected and applies what it returns.    *)
(* The boards: those the loop reaches from the start with pawns and        *)
(* knights, and boards of a late game with kings and knights alone, White  *)
(* to move (the moves that led to them are not kept).                      *)
(***************************************************************************)
\* the squares White's knights stand on, two at a time
KnightSquares ==
    {<<"b", 1>>, <<"f", 3>>, <<"b", 3>>, <<"e", 4>>, <<"b", 5>>}
\* Black's king, and Black's knight if there is one
BlackKingSquares == {<<"e", 8>>, <<"g", 8>>}
BlackKnights == {{}, {<<"d", 2>>}, {<<"d", 6>>}}

\* a position of chess with White to move: Black is not in check
LegalEndgame(pos) ==
    /\ pos.k["w"] \notin KingTargets(pos.k["b"])
    /\ ~KnightAttacks(pos.n["w"], pos.k["b"])

Endgames ==
    {pos \in [turn : {"w"},
              k : {[side \in {"w", "b"} |-> IF side = "w" THEN <<"e", 1>> ELSE bk] :
                      bk \in BlackKingSquares},
              n : {[side \in {"w", "b"} |-> IF side = "w" THEN {a, b} ELSE bn] :
                      <<a, b, bn>> \in {x \in KnightSquares \X KnightSquares \X BlackKnights :
                                           x[1] # x[2]}}] :
        LegalEndgame(pos)}

OpeningLines == {<<>>, <<tE4>>, <<tE4, tE5>>, <<tE4, tA6>>, <<tNf3>>, <<tE4, tNc6>>}

CorrBoards ==
    {PlayAll(NewChess, line).chess : line \in OpeningLines}
        \cup {NewChessFromFen(pos) : pos \in Endgames}

tNd2 == <<"N", "d", "2">>
tNd6 == <<"N", "d", "6">>
tNxd2 == <<"N", "x", "d", "2">>
tNxd6 == <<"N", "x", "d", "6">>
CorrTokens == {tE4, tE5, tA6, tNf3, tNc6, tZz9, tNd2, tNd6, tNxd2, tNxd6,
               <<"e", "3">>, <<"c", "5">>, <<"N", "a", "3">>, <<"N", "1", "d", "2">>}

\* testGame.move(cleanToken) has thrown
CorrInit ==
    /\ corrPc = "rejected"
    /\ corrMove \in CorrTokens
    /\ corrChess \in CorrBoards
    /\ ~chessMove(corrChess, corrMove).ok
    /\ corrGiven = corrChess
    /\ replacement = Null
    /\ PipelineIdle
    /\ NormIdle
    /\ HooksMounted
    /\ ExtractIdle
    /\ DialogMounted

\* const correctedMove = tryOcrCorrections(cleanToken, testGame)
TryOcrCorrections ==
    /\ corrPc = "rejected"
    /\ \E run \in {Corrector(corrMove, corrChess)} :
          /\ replacement' = run.result
          /\ corrChess' = run.chess
          /\ corrPc' = IF run.result = Null THEN "failed" ELSE "returned"
    /\ UNCHANGED <<corrMove, corrGiven>>
    /\ UNCHANGED <<pipelineVars, normVars, gameVars, exVars, dialogVars>>

\* testGame.move(correctedMove) of the loop
ApplyCorrection ==
    /\ corrPc = "returned"
    /\ \E after \in {chessMove(corrChess, replacement)} :
          /\ corrChess' = after.chess
          /\ corrPc' = IF after.ok THEN "applied" ELSE "threw"
    /\ UNCHANGED <<corrMove, corrGiven, replacement>>
    /\ UNCHANGED <<pipelineVars, normVars, gameVars, exVars, dialogVars>>

CorrNext == TryOcrCorrections \/ ApplyCorrection

CorrSpec == CorrInit /\ [][CorrNext]_vars

(***************************************************************************)
(* extractChessMoves on its own, on the texts of a recognition: half-moves *)
(* written with or without move numbers.                                   *)
(***************************************************************************)
MaxExtractPlies == 4

tZz == <<"Z", "z">>
ExtractTokens == {tE4, tE5, tNf3, tCastle, tZz}

ExtractInit ==
    /\ exPc = "start"
    /\ exPlies \in SeqsUpTo(ExtractTokens, MaxExtractPlies)
    /\ exLayout \in {"numbered", "bare"}
    /\ exMode = "none"
    /\ extracted = <<>>
    /\ PipelineIdle
    /\ NormIdle
    /\ HooksMounted
    /\ CorrIdle
    /\ DialogMounted

ExtractChessMoves ==
    /\ exPc = "start"
    /\ \E text \in {Written(exPlies, exLayout)} :
          /\ extracted' = extractChessMoves(text)
          /\ exMode' = IF LooseModeRuns(text) THEN "loose" ELSE "numbered"
    /\ exPc' = "done"
    /\ UNCHANGED <<exPlies, exLayout>>
    /\ UNCHANGED <<pipelineVars, normVars, gameVars, corrVars, dialogVars>>

ExtractNext == ExtractChessMoves

ExtractSpec == ExtractInit /\ [][ExtractNext]_vars

(***************************************************************************)
(* UploadDialog, with the open flag App holds.  A handler runs to its end  *)
(* or to its await in one step; what follows the await of a parse run      *)
(* (setResult, onGameLoaded, finally) is one step too.                     *)
(***************************************************************************)
MaxRuns == 3

elsewhereOfDialog == <<pipelineVars, normVars, gameVars, corrVars, exVars>>

\* App: handleUploadClick
OpenDialog ==
    /\ ~dialogOpen
    /\ dialogOpen' = TRUE
    /\ UNCHANGED <<isProcessing, selectedFile, inputMode, pgnInput, dialogResult,
                   inFlight, started, delivered>>
    /\ UNCHANGED elsewhereOfDialog

\* handleFileSelect with a file
HandleFileSelect ==
    /\ dialogOpen /\ inputMode = "file"
    /\ selectedFile' = TRUE
    /\ dialogResult' = "null"
    /\ UNCHANGED <<isProcessing, inputMode, pgnInput, dialogOpen, inFlight, started, delivered>>
    /\ UNCHANGED elsewhereOfDialog

\* onChange of the text area
TypePgn ==
    /\ dialogOpen /\ inputMode = "pgn"
    /\ pgnInput' \in BOOLEAN
    /\ UNCHANGED <<isProcessing, selectedFile, inputMode, dialogResult, dialogOpen,
                   inFlight, started, delivered>>
    /\ UNCHANGED elsewhereOfDialog

\* handleModeChange, with the tab that is not shown
HandleModeChange ==
    /\ dialogOpen
    /\ inputMode' = IF inputMode = "file" THEN "pgn" ELSE "file"
    /\ dialogResult' = "null"
    /\ isProcessing' = FALSE
    /\ UNCHANGED <<selectedFile, pgnInput, dialogOpen, inFlight, started, delivered>>
    /\ UNCHANGED elsewhereOfDialog

\* handleClose
Closed ==
    /\ selectedFile' = FALSE
    /\ dialogResult' = "null"
    /\ isProcessing' = FALSE
    /\ pgnInput' = FALSE
    /\ inputMode' = "file"
    /\ dialogOpen' = FALSE

\* Cancel, or the dialog closed by its own controls
HandleClose ==
    /\ dialogOpen
    /\ Closed
    /\ UNCHANGED <<inFlight, started, delivered>>
    /\ UNCHANGED elsewhereOfDialog

canSubmit == IF inputMode = "file" THEN selectedFile ELSE pgnInput
\* disabled={!canSubmit || isProcessing}
PrimaryDisabled == ~canSubmit \/ isProcessing

\* handlePrimaryAction: Done closes; otherwise handleUpload or handlePgnSubmit run up to
\* their await
HandlePrimaryAction ==
    /\ dialogOpen /\ ~PrimaryDisabled
    /\ IF dialogResult = "success"
       THEN Closed /\ UNCHANGED <<inFlight, started, delivered>>
       ELSE /\ started < MaxRuns
            /\ isProcessing' = TRUE
            /\ dialogResult' = "null"
            /\ started' = started + 1
            /\ inFlight' = inFlight \cup {started + 1}
            /\ UNCHANGED <<selectedFile, inputMode, pgnInput, dialogOpen, delivered>>
    /\ UNCHANGED elsewhereOfDialog

\* the parse of a run resolves (or throws): setResult, onGameLoaded on success (App:
\* handleGameLoaded closes the dialog when loadPgn returns true), finally
RunDelivers ==
    /\ \E run \in inFlight, success \in BOOLEAN, loaded \in BOOLEAN :
          /\ dialogResult' = IF success THEN "success" ELSE "failure"
          /\ delivered' = IF success
                          THEN Append(delivered, [run |-> run, with |-> inFlight \ {run}])
                          ELSE delivered
          /\ dialogOpen' = IF success /\ loaded THEN FALSE ELSE dialogOpen
          /\ inFlight' = inFlight \ {run}
    /\ isProcessing' = FALSE
    /\ UNCHANGED <<selectedFile, inputMode, pgnInput, started>>
    /\ UNCHANGED elsewhereOfDialog

DialogInit == DialogMounted /\ PipelineIdle /\ NormIdle /\ HooksMounted /\ CorrIdle /\ ExtractIdle

DialogNext ==
    \/ OpenDialog \/ HandleFileSelect \/ TypePgn \/ HandleModeChange \/ HandleClose
    \/ HandlePrimaryAction \/ RunDelivers

DialogSpec == DialogInit /\ [][DialogNext]_vars

(***************************************************************************)
(* Properties of the token loop of validatePgnWithDetails.                 *)
(***************************************************************************)
\* the tokens the loop has taken, as the log saw them go by
Taken == SelectSeq(log, LAMBDA e : e.outcome # "failed")
HasFailed == \E k \in DOMAIN log : log[k].outcome = "failed"

\* C1: at every point of the token loop, and after it, the position of the replay
\* board (testGame) is the position reached by playing partialMoves in order from
\* the initial position, and each of them is legal where it is played, the tokens
\* proposed by tryOcrCorrections included.
C1_BoardIsReplayOfAccepted ==
    /\ PlayAll(NewChess, partialMoves).ok
    /\ PlayAll(NewChess, partialMoves).chess.pos = testGame.pos

\* the loop has pushed a token proposed by tryOcrCorrections after an accepted one
C1_Witness ==
    /\ pc = "replay"
    /\ Len(partialMoves) >= 2
    /\ \E k \in DOMAIN log : log[k].outcome = "corrected" /\ log[k].pushed # log[k].token

\* C2: the tokens of the input are offered to the oracle in input order, a token that
\* is neither accepted nor repaired is the last one offered, and the partial notation
\* returned after it holds exactly the tokens taken before it, in that order.
C2_NothingPastTheFailure ==
    /\ \A k \in DOMAIN log :
          /\ log[k].outcome = "failed" => k = Len(log)
          /\ k < Len(log) => log[k].index < log[k + 1].index
    /\ (pc = "done" /\ caller \in {"text", "gemini"} /\ HasFailed
           /\ Truthy(validation.partialPgn)) =>
          /\ SanTokens(validation.partialPgn) = [k \in 1..(Len(log) - 1) |-> log[k].pushed]
          /\ result.pgn = validation.partialPgn

\* the loop halted after an accepted move, and the token after the one it halted at
\* would have been legal
C2_Witness ==
    /\ pc = "done" /\ HasFailed
    /\ Len(partialMoves) >= 1
    /\ i < Len(moves)
    /\ chessMove(testGame, moves[i + 1]).ok
    /\ result.isPartial

\* the written form of a list of accepted half-moves, token by token: "1." m1 m2 "2." m3 ...
NumberedTokens(pm) ==
    [p \in 1..(Len(pm) + (Len(pm) + 1) \div 2) |->
        IF (p - 1) % 3 = 0 THEN NumStr((p - 1) \div 3 + 1) \o <<".">>
        ELSE pm[2 * ((p - 1) \div 3) + ((p - 1) % 3)]]

\* C4: the partial notation is written from partialMoves alone: half-moves 2k and 2k+1
\* (from 0) stand after the number k+1, so the numbers run 1, 2, 3, ... whatever the
\* numbers of the input were; a partial result of parsePgnTextInput carries that notation.
C4_PartialPgnFromAccepted ==
    /\ Truthy(validation.partialPgn) =>
          SplitWs(validation.partialPgn) = NumberedTokens(partialMoves)
    /\ (pc = "done" /\ entry = "text" /\ result.isPartial) => result.pgn = validation.partialPgn

\* a partial result of three half-moves or more, from an input numbered from 5 on
C4_Witness ==
    /\ pc = "done" /\ result.isPartial
    /\ Len(partialMoves) >= 3
    /\ currentMoveNumber >= 5

\* C5, as stated: when the loop has offered every token of the input and each was taken,
\* as read or repaired, the result is complete (success, not partial); a partial result
\* comes only with a token left unrepaired.
C5_AllTakenIsComplete ==
    (pc = "done" /\ entry = "text") =>
        /\ (Len(log) > 0 /\ ~HasFailed) => (result.success /\ ~result.isPartial)
        /\ result.isPartial => HasFailed

\* the failure description a result carries, if any
Describes(r) == Truthy(r.error) \/ Truthy(r.imageQualityWarning)

\* C6, as stated: when the loop of parsePgnTextInput halts, the result is partial, with the
\* rebuilt notation and a description of the failure, if a move was accepted, and a
\* rejection if none was.
C6_PartialCarriesFailure ==
    (pc = "done" /\ entry = "text" /\ HasFailed) =>
        IF Len(partialMoves) > 0
        THEN /\ result.success /\ result.isPartial
             /\ result.pgn = validation.partialPgn
             /\ Describes(result)
        ELSE ~result.success /\ Describes(result)

\* the number of the last token of moves[1..k-1] that is a move number alone, or 1
RECURSIVE NumberBefore(_)
NumberBefore(k) ==
    IF k <= 1 THEN 1
    ELSE IF FullMatch(MoveNumberPat, Trim(moves[k - 1])) THEN ParseInt(Trim(moves[k - 1]))
    ELSE NumberBefore(k - 1)

IsBlank(text) == \A k \in DOMAIN text : text[k] \in WhiteSpace

\* C8: on an empty or white-space-only text parsePgnTextInput returns at once a rejection
\* with the reason "Please paste a valid PGN string.": no board is made, no token is
\* replayed, and nothing is thrown.
C8_BlankIsRejectedAtOnce ==
    (entry = "text" /\ IsBlank(input)) =>
        /\ pc \in {"start", "done"}
        /\ boards = 0 /\ log = <<>> /\ moves = <<>>
        /\ pc = "done" =>
              result = [NoResult EXCEPT !.error = <<"Please paste a valid PGN string.">>]

\* a white-space-only text has been rejected
C8_Witness ==
    /\ entry = "text" /\ pc = "done"
    /\ Len(input) >= 2 /\ IsBlank(input)
    /\ ~result.success

(***************************************************************************)
(* Properties of the results of the entry pipelines.                       *)
(***************************************************************************)
\* loaded, the outcome of loadPgn on a notation, took all of it and holds n moves
ReplaysTo(loaded, n) == loaded.ok /\ (Len(loaded.chess.hist) + 1) \div 2 = n

\* C3, as stated: the notation of every successful result of parsePgnTextInput, parseCSV
\* and parseImage, complete or partial, replays from the initial position without an
\* illegal move, to the number of moves the result reports.
C3_ResultReplays ==
    (pc = "done" /\ result.success) => ReplaysTo(loadPgn(result.pgn), result.movesFound)

(***************************************************************************)
(* Properties of the fallback of parseImage.                               *)
(***************************************************************************)
\* the local recognition of the image gave a notation that loadPgn takes
LocalSucceeds ==
    /\ file.ocr = "text"
    /\ Truthy(extractChessMoves(file.text))
    /\ loadPgn(extractChessMoves(file.text)).ok
    /\ Len(loadPgn(extractChessMoves(file.text)).chess.hist) > 0

\* the external recognition gave nothing to validate: it threw, or its text is
\* NO_NOTATION_FOUND or shorter than 5 characters
Unusable(g) ==
    \/ g.kind \in {"unreadable", "nokey", "fetchthrows", "httperror"}
    \/ /\ g.kind = "reply"
       /\ \/ (IF g.json THEN g.moves ELSE Trim(g.moves)) = NoNotationFound
          \/ Len(IF g.json THEN g.moves ELSE Trim(g.moves)) < 5

\* C9: one call of parseImage calls parseImageWithGemini at most once, whether the local
\* recognition throws, extracts nothing or fails validation, or the fallback itself
\* fails; it has called it exactly once when it returns after a local recognition that
\* did not give a valid notation; and a result the fallback succeeds with went through
\* validatePgnWithDetails.  The other pipelines never call it.
C9_FallbackOnce ==
    /\ geminiCalls <= 1
    /\ entry # "image" => geminiCalls = 0
    /\ (entry = "image" /\ pc = "done") =>
          /\ geminiCalls = (IF LocalSucceeds THEN 0 ELSE 1)
          /\ (geminiCalls = 1 /\ result.success) =>
                /\ caller = "gemini"
                /\ validation.valid \/ result.pgn = validation.partialPgn

\* the local notation failed validation, the fallback failed too, and parseImage is over
C9_Witness ==
    /\ entry = "image" /\ pc = "done"
    /\ file.ocr = "text" /\ caller = "ocr" /\ HasFailed
    /\ geminiCalls = 1 /\ ~result.success

\* C10: when the external recognition is unusable (no API key, a response that is not
\* ok, a throw, NO_NOTATION_FOUND or a text of fewer than 5 characters), parseImage
\* returns a rejection with a reason that is not empty; it does not throw and does not
\* call parseImageWithGemini again.
C10_UnusableFallbackIsRejected ==
    (entry = "image" /\ geminiCalls > 0 /\ Unusable(gemini)) =>
        /\ pc = "done"
        /\ geminiCalls = 1
        /\ ~result.success
        /\ result.error # Undefined /\ Len(result.error) > 0
        /\ result.error[1] \in
              {"AI vision processing failed: ",
               "Could not detect chess notation in image. Please ensure the image is clear and contains standard algebraic notation."}

\* the external recognition answered with a text of 1 to 4 characters
C10_Witness ==
    /\ entry = "image" /\ pc = "done"
    /\ gemini.kind = "reply"
    /\ Len(gemini.moves) \in 1..4
    /\ ~result.success

(***************************************************************************)
(* C11.  parseCSV against parsePgnTextInput on the equivalent text.        *)
(***************************************************************************)
\* every row has a White and a Black cell with something in it
BothFilled(rows) == \A k \in DOMAIN rows : rows[k].White # <<>> /\ rows[k].Black # <<>>
\* the cells of the rows in playing order
RowPlies(rows) ==
    [k \in 1..(2 * Len(rows)) |->
        Trim(IF k % 2 = 1 THEN rows[(k + 1) \div 2].White ELSE rows[k \div 2].Black)]
\* "1. w1 b1 2. w2 b2 ..."
EquivalentText(rows) == Written(RowPlies(rows), "numbered")
\* the history parsePgnTextInput loads from a text in its candidates loop, or <<>>
LoadedFrom(normalizedInput) ==
    FirstLoaded(Candidates(normalizedInput, stripPgnMetadata(normalizedInput)))
\* r is what parsePgnTextInput returns for a text with this loaded history: the
\* Complete outcome of the history, or, with nothing loaded, no Complete outcome
AsTextWould(r, history) ==
    IF Len(history) > 0
    THEN r = Success(formatHistoryAsPgn(history), Ceil2(Len(history)), FALSE)
    ELSE ~r.success \/ r.isPartial

\* C11: for rows read under a recognised header, parseCSV returns what
\* parsePgnTextInput returns for the equivalent numbered text "1. w1 b1 2. w2 b2":
\* the Complete outcome when the text loads, and otherwise a truncated or a
\* rejected outcome, never a Complete one.
C11_CsvOutcomeIsTextOutcome ==
    (entry = "csv" /\ pc = "done" /\ file.kind = "rows" /\ file.header # "WHITE"
        /\ Len(file.rows) > 0 /\ BothFilled(file.rows))
    => AsTextWould(result,
                   LoadedFrom(normalizeCastling(cleanPgnInput(EquivalentText(file.rows)))))

(***************************************************************************)
(* C12.  The header of a CSV file in any capitalisation.                   *)
(***************************************************************************)
\* C12: whatever the capitalisation of the White and Black headers, parseCSV
\* returns what it returns for the same rows under the headers "White" and "Black".
C12_HeaderInAnyCase ==
    (entry = "csv" /\ pc = "done" /\ file.kind = "rows")
    => result = CsvOutcome(CsvLoop("White", file.rows, 1, [pgn |-> <<>>, moveNumber |-> 1]))

(***************************************************************************)
(* C13, C14.  Properties of the normalizers.                               *)
(***************************************************************************)
\* C13: normalizeCastling turns every kingside spelling ("0-0", "o-o", "O - O") into
\* exactly "O-O" and every queenside spelling ("0-0-0") into exactly "O-O-O", never
\* into "O-O" with a fragment left after it.
C13_CastlingSpellings ==
    applied = <<"normalizeCastling">>
    => /\ texts[1] \in KingsideSpellings => texts[2] = Kingside
       /\ texts[1] \in QueensideSpellings => texts[2] = Queenside

\* "0-0-0" has become "O-O-O"
C13_Witness ==
    /\ applied = <<"normalizeCastling">>
    /\ texts = <<<<"0", "-", "0", "-", "0">>, Queenside>>

\* C14: cleanPgnInput followed by normalizeCastling, applied a second time, leaves
\* the text as the first application left it.
C14_NormalizeIsIdempotent ==
    applied = <<"cleanPgnInput", "normalizeCastling", "cleanPgnInput", "normalizeCastling">>
    => texts[5] = texts[3]

(***************************************************************************)
(* C15, C16, C17.  Properties of useChessGame and useAutoPlay.             *)
(***************************************************************************)
\* the position after the first n of the played moves, replayed from the start
ReplayOf(played, n) == PlayAll(NewChess, Sans(SubSeq(played, 1, n))).chess.pos

\* C15: once a text is loaded, whatever navigation and moves follow, the main line is
\* not lost (mainLinePgn still loads the moves that were loaded), and
\* returnToMainGame leaves the history at exactly those moves, none of them custom,
\* analysis mode off, and the board at the end of the main line.
C15_ReturnRestoresMainLine ==
    /\ Truthy(mainLinePgn) => loadPgn(cleanPgn(mainLinePgn)).chess.hist = mainLine
    /\ (lastOp.name = "returnToMainGame" /\ mainLine # <<>>)
       => /\ historyRef = Recorded(mainLine)
          /\ moveHistory = historyRef
          /\ ~isInAnalysisMode
          /\ currentMoveIndex = Len(mainLine) - 1
          /\ game.pos = ReplayOf(Recorded(mainLine), Len(mainLine))

\* returnToMainGame called from the third half-move of a variation of a main line of
\* one move
C15_Witness ==
    /\ lastOp = [name |-> "returnToMainGame", from |-> 2]
    /\ Len(mainLine) = 1
    /\ Len(historyRef) = 1

\* the current position is the last move of the history
AtLastMove == Len(historyRef) > 0 /\ currentMoveIndex = Len(historyRef) - 1

\* C16: whenever auto-play is on at the last move of the history, auto-play turns
\* itself off: the interval is there to fire, and when it fires isPlaying becomes false.
C16_AutoPlayStopsAtEnd == (isPlaying /\ AtLastMove) => (IntervalSet /\ TickStopsAutoPlay)

\* C17: the index is within -1 .. len(history)-1, the board is the replay of the
\* moves of the list up to the index, and the list is the history; goToFirst leaves
\* the index at -1, goToPrevious and goToNext move it by one or, at their end, leave
\* it, goToLast leaves it at len(history)-1.
C17_BoardAndListInStep ==
    /\ currentMoveIndex \in -1..(Len(historyRef) - 1)
    /\ moveHistory = historyRef
    /\ game.pos = ReplayOf(moveHistory, currentMoveIndex + 1)
    /\ lastOp.name = "goToFirst" => currentMoveIndex = -1
    /\ lastOp.name = "goToPrevious"
       => currentMoveIndex = IF lastOp.from = -1 THEN -1 ELSE lastOp.from - 1
    /\ lastOp.name = "goToNext"
       => currentMoveIndex = IF lastOp.from = Len(historyRef) - 1 THEN lastOp.from
                             ELSE lastOp.from + 1
    /\ lastOp.name = "goToLast" => currentMoveIndex = Len(historyRef) - 1

\* goToPrevious from the last move of a variation of three half-moves
C17_Witness ==
    /\ lastOp = [name |-> "goToPrevious", from |-> 2]
    /\ currentMoveIndex = 1
    /\ isInAnalysisMode
    /\ Len(historyRef) = 3

(***************************************************************************)
(* C18.  The side and the move number of an accepted move.                 *)
(***************************************************************************)
\* a stand-alone move number stands before moves[k]
HasNumberBefore(k) == \E j \in 1..(k - 1) : FullMatch(MoveNumberPat, Trim(moves[j]))
\* the tokens between the last stand-alone move number before moves[k] and moves[k]:
\* none for the White move of that number, one for its Black move
RECURSIVE SinceNumber(_)
SinceNumber(k) ==
    IF k <= 1 \/ FullMatch(MoveNumberPat, Trim(moves[k - 1])) THEN 0
    ELSE SinceNumber(k - 1) + (IF Trim(moves[k - 1]) = <<>> THEN 0 ELSE 1)

\* C18: an accepted move stands in the accepted list at the move number and on the
\* side it was written at: the k-th accepted move, the White (k odd) or Black (k even)
\* move of move ceil(k/2) in the replay, was read under that move number, first after
\* the number for White and second for Black.
C18_AppliedAsWritten ==
    \A k \in DOMAIN Taken :
        HasNumberBefore(Taken[k].index)
        => /\ NumberBefore(Taken[k].index) = (k + 1) \div 2
           /\ SinceNumber(Taken[k].index) = (k + 1) % 2

(***************************************************************************)
(* C19.  The loose-sequence re-extraction.                                 *)
(***************************************************************************)
\* how often the loose-sequence mode of extractChessMoves has run for the input:
\* parseImage calls extractChessMoves once, on the recognized text, and
\* parsePgnTextInput, parseCSV and parseImageWithGemini never call it
LooseExtractions ==
    IF entry = "image" /\ pc # "start" /\ file.ocr = "text" /\ LooseModeRuns(file.text)
    THEN 1 ELSE 0

\* C19: a text or an image is rejected for want of a first acceptable candidate only
\* after exactly one re-extraction in loose-sequence mode.
C19_OneLooseReextraction ==
    (pc = "done" /\ entry \in {"text", "image"} /\ ~result.success /\ Len(partialMoves) = 0)
    => LooseExtractions = 1

(***************************************************************************)
(* C20.  The mark of a repaired move.                                      *)
(***************************************************************************)
\* C20: each accepted move records whether it was repaired: the record of a move the
\* oracle took as written carries no corrected flag, the record of a move taken in
\* the form tryOcrCorrections gave it carries corrected = true.
C20_RepairedMovesAreMarked ==
    \A k \in DOMAIN Taken :
        k \in DOMAIN partialMoves
        => (Taken[k].outcome = "corrected") = Truthy(correctedFlag(partialMoves[k]))

(***************************************************************************)
(* Properties of tryOcrCorrections.                                        *)
(***************************************************************************)
\* C21: tryOcrCorrections never changes the replay state it is given: when it has
\* returned, with a replacement or with none, the board of the loop has the position
\* and the history it had before the call; the replacement is applied by the loop
\* alone, as one move on that board.
C21_CorrectorLeavesReplayState ==
    /\ corrPc \in {"returned", "failed"} => corrChess = corrGiven
    /\ corrPc = "applied" => corrChess = chessMove(corrGiven, replacement).chess

\* a replacement found by the substitution loop, which has made the move on its
\* temporary board, has come back and the board of the loop is as it was
C21_Witness ==
    /\ corrPc = "returned"
    /\ Disambiguate(corrMove, corrGiven) = Null
    /\ chessMove(TestChess(corrGiven), replacement).chess.pos # corrGiven.pos
    /\ corrChess = corrGiven

\* the oracle confirms the token as a legal move of the board
OracleConfirms(chess, token) == chessMove(chess, token).ok

\* [piece][destination] or [piece]x[destination]
IsPieceToSquare(move) ==
    \/ FullMatch(<<One(PieceChars), One(FileChars), One(RankChars)>>, move)
    \/ FullMatch(<<One(PieceChars), One({"x"}), One(FileChars), One(RankChars)>>, move)

\* the sixteen insertions after the piece letter: the files a..h, then the ranks 1..8
InsertionsOf(move) ==
    [k \in DOMAIN Qualifiers |-> <<move[1], Qualifiers[k]>> \o Sub(move, 2, Len(move))]

\* C22: for a rejected token [piece][destination] or [piece]x[destination], if one of
\* the sixteen insertions (files a..h, then ranks 1..8) is a legal move of the
\* position, check or no check, tryOcrCorrections returns the first legal one in that
\* order.
C22_FirstLegalInsertion ==
    (corrPc \in {"returned", "failed"} /\ IsPieceToSquare(corrMove)) =>
        \E first \in {FirstMember(InsertionsOf(corrMove),
                                  {c \in {InsertionsOf(corrMove)[k] : k \in 1..16} :
                                      OracleConfirms(corrGiven, c)})} :
           first # Null => replacement = first

\* the candidates of the stated table: the rank of a square one lower or one higher,
\* the files a and g, b and h, c and e swapped either way, 1 and l swapped either way
StatedCandidates(move) ==
    ({ReplaceRank(move, 1, Digits[x[1] + 1], Digits[x[2] + 1]) :
         x \in {y \in (1..8) \X (1..8) : y[2] = y[1] - 1 \/ y[2] = y[1] + 1}}
     \cup {ReplaceFirst(<<One({x[1]}), One(RankChars)>>, move, 0, x[2]) :
         x \in {<<"a", "g">>, <<"g", "a">>, <<"b", "h">>, <<"h", "b">>, <<"c", "e">>, <<"e", "c">>}}
     \cup {ReplaceFirst(<<One({"l"})>>, move, 0, "1"), ReplaceFirst(<<One({"1"})>>, move, 0, "l")})
    \ {move}

\* C23: the substitutions cover the stated table: when disambiguation has found
\* nothing and the oracle confirms a candidate of the table for the token (its rank
\* r made r-1 or r+1, a file swap, 1 for l or l for 1), tryOcrCorrections returns a
\* candidate of the table that the oracle confirms.
C23_SubstitutionCoversTable ==
    (/\ corrPc \in {"returned", "failed"}
     /\ Disambiguate(corrMove, corrGiven) = Null
     /\ \E c \in StatedCandidates(corrMove) : OracleConfirms(corrGiven, c)) =>
        /\ replacement \in StatedCandidates(corrMove)
        /\ OracleConfirms(corrGiven, replacement)

(***************************************************************************)
(* Properties of extractChessMoves.                                        *)
(***************************************************************************)
\* the half-moves of the text that isValidMove takes, as cleanMove leaves them
ValidPlies(plies) ==
    [k \in DOMAIN SelectSeq(plies, isValidMove) |-> cleanMove(SelectSeq(plies, isValidMove)[k])]

\* C24: in numbered-pair mode no syntactically valid token is dropped: when the mode
\* has made the result of a numbered text, the moves of the result are the valid
\* tokens of the text, all of them and in their order, whatever invalid token stood
\* beside them.
C24_ValidTokensAreKept ==
    (exPc = "done" /\ exMode = "numbered") => SanTokens(extracted) = ValidPlies(exPlies)

\* C25: loose-sequence mode runs only when numbered-pair mode has entered no pair; with
\* fewer than two move-shaped tokens it returns the empty text; with two or more it
\* writes them in their order as White and Black by turns under the move numbers 1,
\* 2, 3, ...
C25_LooseModePairsInOrder ==
    (exPc = "done" /\ exMode = "loose") =>
        /\ DOMAIN SequentialScan(Trim(CollapseWs(normalizeCastling(Written(exPlies, exLayout)))),
                                 1, <<>>) = {}
        /\ extracted = IF Len(ValidPlies(exPlies)) >= 2
                       THEN Written(ValidPlies(exPlies), "numbered") ELSE <<>>

\* loose-sequence mode has written three tokens of a text without move numbers under
\* the numbers 1 and 2
C25_Witness ==
    /\ exPc = "done" /\ exMode = "loose" /\ exLayout = "bare"
    /\ Len(ValidPlies(exPlies)) = 3 /\ Len(exPlies) = 4
    /\ extracted = Written(ValidPlies(exPlies), "numbered")

(***************************************************************************)
(* Termination of the token loop.                                          *)
(***************************************************************************)
\* the loop is at a token, or past the last one
WithinInput == i \in 1..(Len(moves) + 1)

\* one step of the loop: on to the next token, or out at a token that is neither legal
\* nor repaired, or out past the last token
LoopStep ==
    \/ pc' = "replay" /\ i' = i + 1 /\ i <= Len(moves)
    \/ pc' = "halted" /\ i' = i /\ log'[Len(log')].outcome = "failed"
    \/ pc' \notin {"replay", "halted", "threw"} /\ i > Len(moves)

\* C26: the token replay of validatePgnWithDetails ends for every input: the loop
\* stands at a token of the input or just past the last one, each of its steps goes
\* on to the next token or leaves the loop, so that no token is offered to the oracle
\* twice, and it leaves either past the last token or at the first token that is
\* neither legal nor repaired.
C26_ReplayTerminates ==
    /\ []((pc = "replay" => WithinInput) /\ pc # "threw")
    /\ [](\A j, k \in DOMAIN log : j < k => log[j].index < log[k].index)
    /\ [][pc = "replay" => LoopStep]_vars

\* the loop has come to its end past the last token of a text of six tokens, one of
\* which tryOcrCorrections has repaired
C26_Witness ==
    /\ pc = "done" /\ caller = "text"
    /\ i = Len(moves) + 1 /\ Len(moves) >= 6
    /\ \E k \in DOMAIN log : log[k].outcome = "corrected"

(***************************************************************************)
(* Properties of resetGame, canGoNext and analysis mode.                   *)
(***************************************************************************)
\* C27: after resetGame, from any state of the hook, the published game state is that
\* of a fresh game: the initial position, an empty move history, currentMoveIndex -1,
\* no main line, analysis mode off.
C27_ResetPublishesFreshGame ==
    lastOp.name = "resetGame" =>
        /\ chessFen(game) = InitialPosition
        /\ moveHistory = <<>>
        /\ currentMoveIndex = -1
        /\ mainLinePgn = <<>>
        /\ ~isInAnalysisMode

\* C28: canGoNext of App is true exactly when there is a next move, that is when
\* currentMoveIndex is below the number of half-moves of the history minus one, which
\* is when goToNext advances; for an even and for an odd number of half-moves.
C28_CanGoNextIffNextMove ==
    canGoNext <=> currentMoveIndex < Len(historyRef) - 1

\* a move of the history is flagged isCustom
HasCustom(played) == \E k \in DOMAIN played : played[k].isCustom

\* C29: over loadPgn, makeMove, navigation, returnToMainGame and resetGame, analysis
\* mode is on exactly when the history holds a move flagged isCustom, the custom moves
\* are a suffix of the history, analysis mode implies a loaded main line, and a
\* makeMove that changes the history called at index i leaves history[0..i] followed
\* by the new move.
C29_AnalysisModeAndCustomMoves ==
    /\ [](/\ isInAnalysisMode <=> HasCustom(historyRef)
          /\ \A j, k \in DOMAIN historyRef : (j < k /\ historyRef[j].isCustom) => historyRef[k].isCustom
          /\ isInAnalysisMode => Truthy(mainLinePgn))
    /\ [][(lastOp'.name = "makeMove" /\ historyRef' # historyRef) =>
            /\ Len(historyRef') = Len(Slice(historyRef, currentMoveIndex + 1)) + 1
            /\ Slice(historyRef', Len(historyRef') - 1) = Slice(historyRef, currentMoveIndex + 1)
            /\ currentMoveIndex' = Len(historyRef') - 1]_vars

\* a custom move has been made from the middle of a loaded game of three half-moves,
\* in place of the moves after it
C29_Witness ==
    /\ lastOp.name = "makeMove" /\ lastOp.from = 0
    /\ Len(mainLine) = 3 /\ Len(historyRef) = 2
    /\ ~historyRef[1].isCustom /\ historyRef[2].isCustom
    /\ isInAnalysisMode

(***************************************************************************)
(* Properties of UploadDialog.                                             *)
(***************************************************************************)
\* C30: at most one parse run started from the upload dialog is in flight at any time,
\* whatever mode switches, file selections, closings and reopenings come between, and
\* no call of onGameLoaded is made by a run while another run is in flight.
C30_OneRunInFlight ==
    /\ Cardinality(inFlight) <= 1
    /\ \A k \in DOMAIN delivered : delivered[k].with = {}

====
